---- MODULE Spec2Model ----
(***************************************************************************)
(* SyncPlay session coordinator (apps/server): RoomManager and the         *)
(* WebSocket message handlers of server.ts, as a state machine (Spec),     *)
(* and one client (apps/client): its role, its <video> element and the     *)
(* playback corrector of useSyncPlayback.ts (ClientSpec); the fetch engine *)
(* of App.tsx, that is the joins, the streaming loop, the fetches of the   *)
(* corrector and of the seeking listener, the append queue and the         *)
(* SourceBuffers (FetchSpec; FaultSpec with failing fetches and appends;   *)
(* OverlapSpec with a session that starts while the loop of the session    *)
(* before awaits its fetch, and OverlapLiveSpec with its fairness);        *)
(* cleanupBuffer on its own (EvictSpec); and the connection of             *)
(* SyncPlayService.ts to the coordinator (ServiceSpec).                    *)
(*                                                                         *)
(* Representation.  A JavaScript Map is a sequence of its values in        *)
(* insertion order (Map.set of a new key appends, Map.delete removes and   *)
(* keeps the order of the rest).  Room ids and uuids are strings in the    *)
(* code; here room ids are 1..NumRooms and uuidv4() returns the least id   *)
(* that no member of any room carries (an id is used again only when       *)
(* nothing refers to it any more; NumConns + MaxGhosts ids are enough).    *)
(* null is NoUser for a user id, NullState for a playback state and        *)
(* NullName for a name.                                                    *)
(* The human-readable text of an error message is a function of its code   *)
(* and is left out.                                                        *)
(***************************************************************************)
EXTENDS Integers, Sequences, FiniteSets, TLC

\* ---- bounds of the model ------------------------------------------------
\* NumConns sockets, NumRooms room ids, and at most MaxGhosts members whose
\* connection has joined again since.  The invariants below were also
\* explored with NumRooms = 3 (426,093 states) and with MaxGhosts = 2
\* (339,855 states); with NumConns = 3 the state space exceeds 7 million
\* states.
NumConns == 2
NumRooms == 2
MaxGhosts == 1

\* the configurations of appsettings.json the model runs under
ServerConfig ==
  { [maxRoomCount |-> 1, maxUsersPerRoom |-> 3],
    [maxRoomCount |-> 2, maxUsersPerRoom |-> 2],
    [maxRoomCount |-> 2, maxUsersPerRoom |-> 1] }

Conns == 1..NumConns
RoomIds == 1..NumRooms

\* what the client behind a connection puts in its join requests
NameOf == <<"ann", "bob", "cat", "dan", "eve", "fay">>
UserNames == [ws \in Conns |-> NameOf[ws]]
TrackNames == {"clip"}

\* the value Date.now() returns
ClockSamples == {1000}

NoUser == 0
NullName == "<null>"
NullState == [null |-> TRUE]

UserRole == {"leader", "follower"}

\* the messages a client may send: one position (the coordinator copies the
\* fields and never inspects them), each play state and each action
SyncUpdateMessage ==
  { [type |-> "sync-update", timestamp |-> 12, groupId |-> 6, objectId |-> 24,
     isPlaying |-> p] : p \in BOOLEAN }

PlaybackControlMessage ==
  { [type |-> "playback-control", action |-> a, timestamp |-> 12,
     groupId |-> 6, objectId |-> 24] : a \in {"play", "pause"} }
  \cup
  { [type |-> "playback-control", action |-> "seek", timestamp |-> 12,
     groupId |-> 6, objectId |-> 24, seekTarget |-> 12] }

NoMsg == [type |-> "none"]

VARIABLES
  config,              \* serverConfig: maxRoomCount, maxUsersPerRoom
  rooms,               \* RoomManager.rooms, in insertion order
  allConnections,      \* RoomManager.allConnections
  connectionToUserId,  \* server.ts connectionToUserId (NoConn when absent)
  wsState,             \* per WebSocket: "idle", "open", "errored"
  sent,                \* the ws.send calls of the last handler, in order
  last                 \* the last handler run: its arguments, the rooms
                       \* before it ran, and its outcome

\* the state of one client (apps/client): App.tsx and useSyncPlayback.ts
VARIABLES
  userRole,            \* App: userRole ("none" for null)
  roomState,           \* App: roomState (NoRoomState for null)
  isIndependentMode,   \* App: isIndependentMode
  leaderPositionRef,   \* App: leaderPositionRef.current (NoPosition for null)
  video,               \* videoRef.current: currentTime and paused (NoVideo
                       \* while no <video> element is mounted)
  deltaThresholdRef,   \* useSyncPlayback: deltaThresholdRef.current
  reported,            \* history: the newest leader position delivered to the
                       \* follower's message subscription while a <video>
                       \* element is mounted (NoPosition if none)
  clientLast           \* the last client step: its message and the state it
                       \* started from

\* the fetch engine of the same client (App.tsx): the streaming loop, the
\* buffered set, the append queue and the MediaSource buffers
VARIABLES
  streamingRef,        \* App: streamingRef.current
  nextGroupRef,        \* App: nextGroupRef.current
  bufferedRangesRef,   \* App: bufferedRangesRef.current, a set of group ids
  hasJumpedAheadRef,   \* App: hasJumpedAheadRef.current
  isSeeking,           \* App: isSeeking.current
  appendQueueRef,      \* App: appendQueueRef.current, payloads in queue order
  appendingRef,        \* App: appendingRef.current
  sourceBufferRef,     \* App: sourceBufferRef.current, an index of
                       \* sourceBuffers (NoSourceBuffer for null)
  sourceBuffers,       \* the SourceBuffer of each MediaSource created so far:
                       \* the payload being appended and the payloads appended
  requestState,        \* App: requestState.error is set
  joinRoomClosure,     \* the userRole of the render the memoised
                       \* handleJoinRoom (and its handleJoinRoomClick) closes over
  relaySubscribed,     \* App: relaySubscribed
  joinCall,            \* the handleJoinRoom call in flight and the userRole
                       \* its closure holds (NoCall if none)
  streamLoop,          \* the streaming loop: where it is, and the userRole
                       \* its closure holds
  syncFetch,           \* the handleSyncRequired call in flight (NoFetch if none)
  seekFetch,           \* the handleSeeking call in flight (NoFetch if none)
  faults,              \* history: the fetches that failed and the appendBuffer
                       \* calls that threw so far
  fetchLast            \* the last step of the fetch engine and what it saw

\* a streaming loop that outlives its session (App.tsx)
VARIABLES
  oldLoop              \* the loop of the session before, if it is still running
                       \* when the next session starts (NoLoop if none)

\* the SourceBuffer that cleanupBuffer is called on (App.tsx)
VARIABLES
  evBuffered,          \* sb.buffered: the buffered time ranges, in order
  evTime,              \* the currentTimeSeconds that cleanupBuffer is called with
  evRemoved            \* the range that the last cleanupBuffer call removed
                       \* (NoRemoval if it removed nothing)

\* the client's connection to the coordinator (SyncPlayService.ts)
VARIABLES
  sockets,             \* the WebSockets created so far: the readyState of each
  serviceWs,           \* SyncPlayService.ws, an index of sockets (NoSocket for null)
  shouldReconnect,     \* SyncPlayService.shouldReconnect
  reconnectTimeout,    \* SyncPlayService.reconnectTimeout is not null
  reconnectTimers,     \* the reconnect timers that are pending
  lastJoinMessage,     \* SyncPlayService.lastJoinMessage (NoJoin for null)
  appReconnect,        \* the timer of handleLeaveRoom that reconnects is pending
  answers,             \* history: the coordinator's latest answer to each join request
  currentPage,         \* App: currentPage
  joining,             \* the join request of the handleJoinRoom call in flight
  serviceLast          \* the last step of the service and what it saw

serverVars == <<config, rooms, allConnections, connectionToUserId, wsState, sent, last>>

clientVars == <<userRole, roomState, isIndependentMode, leaderPositionRef, video,
                deltaThresholdRef, reported, clientLast>>

fetchVars == <<streamingRef, nextGroupRef, bufferedRangesRef, hasJumpedAheadRef,
               isSeeking, appendQueueRef, appendingRef, sourceBufferRef,
               sourceBuffers, requestState, joinRoomClosure, relaySubscribed,
               joinCall, streamLoop, syncFetch, seekFetch, faults, fetchLast>>

evictVars == <<evBuffered, evTime, evRemoved>>

serviceVars == <<sockets, serviceWs, shouldReconnect, reconnectTimeout, reconnectTimers,
                 lastJoinMessage, appReconnect, answers, currentPage, joining,
                 serviceLast>>

overlapVars == <<oldLoop>>

\* what the fetch engine leaves alone as well
auxVars == <<evictVars, serviceVars, overlapVars>>

\* what the coordinator's handlers and the corrector leave alone
engineVars == <<fetchVars, auxVars>>

vars == <<serverVars, clientVars, engineVars>>

NoConn == [userId |-> NoUser, roomId |-> 0]

\* ---- Map helpers ---------------------------------------------------------
HasRoom(rs, roomId) == \E i \in DOMAIN rs : rs[i].id = roomId

RoomIndex(rs, roomId) == CHOOSE i \in DOMAIN rs : rs[i].id = roomId

GetRoom(rs, roomId) == rs[RoomIndex(rs, roomId)]

SetRoom(rs, room) == [rs EXCEPT ![RoomIndex(rs, room.id)] = room]

DeleteRoom(rs, roomId) == SelectSeq(rs, LAMBDA r : r.id # roomId)

HasUser(room, userId) == \E i \in DOMAIN room.users : room.users[i].id = userId

GetUser(room, userId) ==
  room.users[CHOOSE i \in DOMAIN room.users : room.users[i].id = userId]

\* mutant: the member is not deleted
DeleteUser_Keeps(users, userId) == users

DeleteUser(users, userId) == SelectSeq(users, LAMBDA u : u.id # userId)

\* the concatenation of f(s[1]), f(s[2]), ... (a forEach that sends)
RECURSIVE FlatMap(_, _)
FlatMap(f(_), s) ==
  IF s = <<>> THEN <<>> ELSE f(Head(s)) \o FlatMap(f, Tail(s))

SeqMap(f(_), s) == [i \in DOMAIN s |-> f(s[i])]

\* an enumeration of a set of connections (Set.forEach)
RECURSIVE SetToSeq(_)
SetToSeq(S) ==
  IF S = {} THEN <<>>
  ELSE LET x == CHOOSE y \in S : \A z \in S : y <= z
       IN <<x>> \o SetToSeq(S \ {x})

\* ---- sending -------------------------------------------------------------
\* one ws.send call: the socket, the member it was made for (NoUser for a
\* send that is made for a connection), the message
Send(ws, userId, message) == <<[to |-> ws, user |-> userId, msg |-> message]>>

sendToUser(user, message) == Send(user.ws, user.id, message)

sendError(ws, code) == Send(ws, NoUser, [type |-> "error", code |-> code])

getRoomsList(rs) ==
  SeqMap(LAMBDA room :
           [id |-> room.id,
            hasLeader |-> room.leaderId # NoUser,
            userCount |-> Len(room.users),
            videoName |-> room.mediaName,
            leaderName |-> IF room.leaderId # NoUser /\ HasUser(room, room.leaderId)
                           THEN GetUser(room, room.leaderId).name
                           ELSE NullName],
         rs)

\* st is the state of the sockets while the handler runs
broadcastRoomListUpdate(rs, st) ==
  FlatMap(LAMBDA ws :
            IF st[ws] = "open"
            THEN Send(ws, NoUser, [type |-> "rooms-list", rooms |-> getRoomsList(rs)])
            ELSE <<>>,
          SetToSeq(allConnections))

\* mutant: the room state is sent without the playback state
sendRoomState_NoPlayback(rs, roomId, userId) ==
  IF ~HasRoom(rs, roomId) THEN <<>>
  ELSE LET room == GetRoom(rs, roomId) IN
    IF ~HasUser(room, userId) THEN <<>>
    ELSE LET user == GetUser(room, userId) IN
      sendToUser(user,
        [type |-> "room-state",
         roomId |-> roomId,
         userId |-> userId,
         role |-> user.role,
         leaderId |-> room.leaderId,
         leaderName |-> IF room.leaderId # NoUser /\ HasUser(room, room.leaderId)
                        THEN GetUser(room, room.leaderId).name
                        ELSE NullName,
         users |-> SeqMap(LAMBDA u : [id |-> u.id, name |-> u.name, role |-> u.role],
                          room.users),
         totalUsers |-> Len(room.users),
         mediaName |-> room.mediaName,
         currentPlaybackState |-> NullState])

sendRoomState(rs, roomId, userId) ==
  IF ~HasRoom(rs, roomId) THEN <<>>
  ELSE LET room == GetRoom(rs, roomId) IN
    IF ~HasUser(room, userId) THEN <<>>
    ELSE LET user == GetUser(room, userId) IN
      sendToUser(user,
        [type |-> "room-state",
         roomId |-> roomId,
         userId |-> userId,
         role |-> user.role,
         leaderId |-> room.leaderId,
         leaderName |-> IF room.leaderId # NoUser /\ HasUser(room, room.leaderId)
                        THEN GetUser(room, room.leaderId).name
                        ELSE NullName,
         users |-> SeqMap(LAMBDA u : [id |-> u.id, name |-> u.name, role |-> u.role],
                          room.users),
         totalUsers |-> Len(room.users),
         mediaName |-> room.mediaName,
         currentPlaybackState |-> room.currentPlaybackState])

\* mutant: the sender is not excluded
broadcastToRoom_NoExclude(rs, roomId, message, excludeUserId) ==
  IF ~HasRoom(rs, roomId) THEN <<>>
  ELSE FlatMap(LAMBDA user : sendToUser(user, message), GetRoom(rs, roomId).users)

\* excludeUserId = NoUser when the argument is omitted
broadcastToRoom(rs, roomId, message, excludeUserId) ==
  IF ~HasRoom(rs, roomId) THEN <<>>
  ELSE FlatMap(LAMBDA user :
                 IF excludeUserId # NoUser /\ user.id = excludeUserId THEN <<>>
                 ELSE sendToUser(user, message),
               GetRoom(rs, roomId).users)

\* ---- RoomManager.joinRoom ------------------------------------------------
UserIds == 1..(NumConns + MaxGhosts)

UsedIds(rs) ==
  UNION { { rs[i].users[j].id : j \in DOMAIN rs[i].users } : i \in DOMAIN rs }

FreeIds(rs) == UserIds \ UsedIds(rs)

uuidv4(rs) ==
  IF FreeIds(rs) = {} THEN NoUser
  ELSE CHOOSE id \in FreeIds(rs) : \A other \in FreeIds(rs) : id <= other

\* mutant: an existing room is handed out with its playback state cleared
getOrCreateRoom_Fresh(rs, roomId) ==
  IF HasRoom(rs, roomId)
  THEN SetRoom(rs, [GetRoom(rs, roomId) EXCEPT !.currentPlaybackState = NullState])
  ELSE Append(rs, [id |-> roomId,
                   leaderId |-> NoUser,
                   users |-> <<>>,
                   mediaName |-> "demo",
                   currentPlaybackState |-> NullState])

getOrCreateRoom(rs, roomId) ==
  IF HasRoom(rs, roomId) THEN rs
  ELSE Append(rs, [id |-> roomId,
                   leaderId |-> NoUser,
                   users |-> <<>>,
                   mediaName |-> "demo",
                   currentPlaybackState |-> NullState])

\* mutant: the limit is tested with > instead of >=
MaxRoomsReached_OffByOne(rs, roomId) ==
  ~HasRoom(rs, roomId) /\ Len(rs) > config.maxRoomCount

MaxRoomsReached(rs, roomId) ==
  ~HasRoom(rs, roomId) /\ Len(rs) >= config.maxRoomCount

\* mutant: the limit is tested with > instead of >=
RoomFull_OffByOne(room) == Len(room.users) > config.maxUsersPerRoom

\* mutant: the room counts as full one member early
RoomFull_OneEarly(room) == Len(room.users) + 1 >= config.maxUsersPerRoom

RoomFull(room) == Len(room.users) >= config.maxUsersPerRoom

\* mutant: the leader check is missing
LeaderExists_Unchecked(role, room) == FALSE

LeaderExists(role, room) == role = "leader" /\ room.leaderId # NoUser

\* mutant: the leaderless check is missing
NoLeader_Unchecked(role, room) == FALSE

\* mutant: the check does not except the room that has no member yet
NoLeader_EmptyRoomToo(role, room) ==
  role = "follower" /\ room.leaderId = NoUser

NoLeader(role, room) ==
  role = "follower" /\ room.leaderId = NoUser /\ Len(room.users) > 0

\* the outcome of joinRoom: the error code ("OK" on success), the new user
\* id, the rooms afterwards and the messages sent
joinRoom(roomId, role, userName, mediaTrackName, ws) ==
  IF MaxRoomsReached(rooms, roomId)
  THEN [code |-> "MAX_ROOMS_REACHED", userId |-> NoUser, rooms |-> rooms, sent |-> <<>>]
  ELSE LET rs1 == getOrCreateRoom(rooms, roomId)
           room == GetRoom(rs1, roomId)
       IN
    IF RoomFull(room)
    THEN [code |-> "ROOM_FULL", userId |-> NoUser, rooms |-> rs1, sent |-> <<>>]
    ELSE IF LeaderExists(role, room)
    THEN [code |-> "LEADER_EXISTS", userId |-> NoUser, rooms |-> rs1, sent |-> <<>>]
    ELSE IF NoLeader(role, room)
    THEN [code |-> "NO_LEADER", userId |-> NoUser, rooms |-> rs1, sent |-> <<>>]
    ELSE LET userId == uuidv4(rooms)
             user == [id |-> userId, name |-> userName, role |-> role,
                      roomId |-> roomId, mediaTrackName |-> mediaTrackName,
                      ws |-> ws]
             room2 == [room EXCEPT
                         !.users = Append(@, user),
                         !.leaderId = IF role = "leader" THEN userId ELSE @,
                         !.mediaName = IF role = "leader" THEN mediaTrackName ELSE @]
             rs2 == SetRoom(rs1, room2)
         IN [code |-> "OK", userId |-> userId, rooms |-> rs2,
             sent |-> sendRoomState(rs2, roomId, userId)
                      \o broadcastToRoom(rs2, roomId,
                           [type |-> "user-joined", userId |-> userId,
                            userName |-> userName, role |-> role,
                            totalUsers |-> Len(room2.users)],
                           userId)
                      \o broadcastRoomListUpdate(rs2, wsState)]


\* ---- RoomManager.leaveRoom -----------------------------------------------
\* mutant: an empty room is never deleted
RoomEmpty_Never(users) == FALSE

RoomEmpty(users) == Len(users) = 0

Followers(users) == SelectSeq(users, LAMBDA u : u.role = "follower")

\* mutant: the promoted follower keeps its role
Promote_KeepsRole(users, pick) == users

\* randomFollower.role = 'leader'
Promote(users, pick) ==
  [i \in DOMAIN users |->
     IF users[i].id = pick THEN [users[i] EXCEPT !.role = "leader"] ELSE users[i]]

\* the values followers[Math.floor(Math.random() * followers.length)] can
\* take when userId leaves roomId ({NoUser} when nobody is promoted)
PromotionChoices(rs, roomId, userId) ==
  IF ~HasRoom(rs, roomId) THEN {NoUser}
  ELSE LET room == GetRoom(rs, roomId)
           rest == Followers(DeleteUser(room.users, userId))
       IN IF HasUser(room, userId) /\ room.leaderId = userId /\ Len(rest) > 0
          THEN { rest[i].id : i \in DOMAIN rest }
          ELSE {NoUser}

\* the outcome of leaveRoom when Math.random() selects pick: the rooms
\* afterwards, the messages sent, and the locals wasLeader and newLeaderId
leaveRoom(roomId, userId, pick, st) ==
  LET nothing == [code |-> "none", rooms |-> rooms, sent |-> <<>>,
                  wasLeader |-> FALSE, newLeaderId |-> NoUser]
  IN
  IF ~HasRoom(rooms, roomId) THEN nothing
  ELSE LET room == GetRoom(rooms, roomId) IN
    IF ~HasUser(room, userId) THEN nothing
    ELSE LET user == GetUser(room, userId)
             wasLeader == room.leaderId = userId
             users1 == DeleteUser(room.users, userId)
         IN
      IF RoomEmpty(users1)
      THEN LET rs1 == DeleteRoom(rooms, roomId)
           IN [code |-> "room-deleted", rooms |-> rs1,
               sent |-> broadcastRoomListUpdate(rs1, st),
               wasLeader |-> wasLeader, newLeaderId |-> NoUser]
      ELSE LET followers == Followers(users1)
               promoted == wasLeader /\ Len(followers) > 0
               newLeaderId == IF promoted THEN pick ELSE NoUser
               room2 == [room EXCEPT
                           !.users = IF promoted THEN Promote(users1, pick) ELSE users1,
                           !.leaderId = IF wasLeader THEN newLeaderId ELSE @]
               rs2 == SetRoom(rooms, room2)
           IN [code |-> "left", rooms |-> rs2,
               sent |-> broadcastToRoom(rs2, roomId,
                          [type |-> "user-left", userId |-> userId,
                           userName |-> user.name,
                           totalUsers |-> Len(room2.users),
                           newLeaderId |-> newLeaderId],
                          NoUser)
                        \o (IF newLeaderId # NoUser
                            THEN FlatMap(LAMBDA u : sendRoomState(rs2, roomId, u.id),
                                         room2.users)
                            ELSE <<>>)
                        \o broadcastRoomListUpdate(rs2, st),
               wasLeader |-> wasLeader, newLeaderId |-> newLeaderId]

\* ---- RoomManager.handleSyncUpdate / handlePlaybackControl ----------------
\* mutant: any member of the room passes the leader gate
IsLeader_AnyMember(room, userId) == HasUser(room, userId)

IsLeader(room, userId) == room.leaderId = userId

SyncState(syncData, now) ==
  [timestamp |-> syncData.timestamp,
   groupId |-> syncData.groupId,
   objectId |-> syncData.objectId,
   isPlaying |-> syncData.isPlaying,
   lastUpdateTime |-> now]

ControlState(controlData, now) ==
  [timestamp |-> controlData.timestamp,
   groupId |-> controlData.groupId,
   objectId |-> controlData.objectId,
   isPlaying |-> (controlData.action = "play"),
   lastUpdateTime |-> now]

\* both handlers: newState is the playback state built from the message
relay(roomId, userId, message, newState) ==
  IF ~HasRoom(rooms, roomId)
  THEN [code |-> "no-room", rooms |-> rooms, sent |-> <<>>]
  ELSE LET room == GetRoom(rooms, roomId) IN
    IF ~IsLeader(room, userId)
    THEN [code |-> "dropped", rooms |-> rooms, sent |-> <<>>]
    ELSE LET rs1 == SetRoom(rooms, [room EXCEPT !.currentPlaybackState = newState])
         IN [code |-> "relayed", rooms |-> rs1,
             sent |-> broadcastToRoom(rs1, roomId, message, userId)]

\* ---- server.ts: the handlers of one connection ---------------------------
Handled(op, ws, roomId, userId, role, code, wasLeader, newLeaderId, msg) ==
  [op |-> op, ws |-> ws, roomId |-> roomId, userId |-> userId, role |-> role,
   code |-> code, wasLeader |-> wasLeader, newLeaderId |-> newLeaderId,
   msg |-> msg, before |-> rooms]

\* a socket object is used again only when no member holds a reference to it
Referenced(ws) ==
  \E i \in DOMAIN rooms : \E j \in DOMAIN rooms[i].users : rooms[i].users[j].ws = ws

OnConnection(ws) ==
  /\ wsState[ws] = "idle"
  /\ ~Referenced(ws)
  /\ wsState' = [wsState EXCEPT ![ws] = "open"]
  /\ allConnections' = allConnections \cup {ws}
  /\ sent' = <<>>
  /\ last' = Handled("connection", ws, 0, NoUser, "none", "none", FALSE, NoUser, NoMsg)
  /\ UNCHANGED <<config, rooms, connectionToUserId, clientVars, engineVars>>

\* the members no connection is bound to any more: a connection that joins
\* again is bound to its new member only
Ghosts ==
  { id \in UsedIds(rooms) : \A ws \in Conns : connectionToUserId[ws].userId # id }

handleJoinRoom(ws, roomId, role, userName, mediaTrackName) ==
  /\ wsState[ws] = "open"
  /\ LET result == joinRoom(roomId, role, userName, mediaTrackName, ws) IN
       \* the bound of the model: at most MaxGhosts ghosts
       /\ (result.code = "OK" /\ connectionToUserId[ws] # NoConn)
          => Cardinality(Ghosts) < MaxGhosts
       /\ rooms' = result.rooms
       /\ IF result.code # "OK"
          THEN /\ sent' = sendError(ws, result.code)
               /\ UNCHANGED connectionToUserId
          ELSE /\ sent' = result.sent
               /\ connectionToUserId' =
                    [connectionToUserId EXCEPT
                       ![ws] = [userId |-> result.userId, roomId |-> roomId]]
       /\ last' = Handled("join", ws, roomId, result.userId, role, result.code,
                          FALSE, NoUser, NoMsg)
  /\ UNCHANGED <<config, allConnections, wsState, clientVars, engineVars>>

handleSyncUpdate(ws, message) ==
  /\ wsState[ws] = "open"
  /\ LET connection == connectionToUserId[ws] IN
     IF connection = NoConn
     THEN /\ sent' = <<>>
          /\ last' = Handled("sync-update", ws, 0, NoUser, "none",
                             "unknown-connection", FALSE, NoUser, message)
          /\ UNCHANGED rooms
     ELSE \E now \in ClockSamples :
          LET result == relay(connection.roomId, connection.userId, message,
                              SyncState(message, now))
          IN /\ rooms' = result.rooms
             /\ sent' = result.sent
             /\ last' = Handled("sync-update", ws, connection.roomId,
                                connection.userId, "none", result.code, FALSE,
                                NoUser, message)
  /\ UNCHANGED <<config, allConnections, connectionToUserId, wsState, clientVars, engineVars>>

handlePlaybackControl(ws, message) ==
  /\ wsState[ws] = "open"
  /\ LET connection == connectionToUserId[ws] IN
     IF connection = NoConn
     THEN /\ sent' = <<>>
          /\ last' = Handled("playback-control", ws, 0, NoUser, "none",
                             "unknown-connection", FALSE, NoUser, message)
          /\ UNCHANGED rooms
     ELSE \E now \in ClockSamples :
          LET result == relay(connection.roomId, connection.userId, message,
                              ControlState(message, now))
          IN /\ rooms' = result.rooms
             /\ sent' = result.sent
             /\ last' = Handled("playback-control", ws, connection.roomId,
                                connection.userId, "none", result.code, FALSE,
                                NoUser, message)
  /\ UNCHANGED <<config, allConnections, connectionToUserId, wsState, clientVars, engineVars>>

handleGetRooms(ws) ==
  /\ wsState[ws] = "open"
  /\ sent' = Send(ws, NoUser, [type |-> "rooms-list", rooms |-> getRoomsList(rooms)])
  /\ last' = Handled("get-rooms", ws, 0, NoUser, "none", "none", FALSE, NoUser, NoMsg)
  /\ UNCHANGED <<config, rooms, allConnections, connectionToUserId, wsState, clientVars, engineVars>>

handleGetConfig(ws) ==
  /\ wsState[ws] = "open"
  /\ sent' = Send(ws, NoUser, [type |-> "config", config |-> config])
  /\ last' = Handled("get-config", ws, 0, NoUser, "none", "none", FALSE, NoUser, NoMsg)
  /\ UNCHANGED <<config, rooms, allConnections, connectionToUserId, wsState, clientVars, engineVars>>

\* mutant: the connection loses its member when it sends a bad message
OnBadMessage_Unbinds(ws, code) ==
  /\ wsState[ws] = "open"
  /\ sent' = sendError(ws, code)
  /\ last' = Handled("bad-message", ws, 0, NoUser, "none", code, FALSE, NoUser, NoMsg)
  /\ connectionToUserId' = [connectionToUserId EXCEPT ![ws] = NoConn]
  /\ UNCHANGED <<config, rooms, allConnections, wsState, clientVars, engineVars>>

\* JSON.parse throws (PARSE_ERROR) or the type is not one of the switch
\* cases (UNKNOWN_MESSAGE)
OnBadMessage(ws, code) ==
  /\ wsState[ws] = "open"
  /\ sent' = sendError(ws, code)
  /\ last' = Handled("bad-message", ws, 0, NoUser, "none", code, FALSE, NoUser, NoMsg)
  /\ UNCHANGED <<config, rooms, allConnections, connectionToUserId, wsState, clientVars, engineVars>>

\* the 'close' and 'error' events both run handleDisconnect; st is the state
\* of the sockets after the event
handleDisconnect(op, ws, st) ==
  /\ wsState' = st
  /\ LET connection == connectionToUserId[ws] IN
     IF connection # NoConn
     THEN \E pick \in PromotionChoices(rooms, connection.roomId, connection.userId) :
          LET result == leaveRoom(connection.roomId, connection.userId, pick, st)
          IN /\ rooms' = result.rooms
             /\ sent' = result.sent
             /\ last' = Handled(op, ws, connection.roomId, connection.userId,
                                "none", result.code, result.wasLeader,
                                result.newLeaderId, NoMsg)
     ELSE /\ sent' = <<>>
          /\ last' = Handled(op, ws, 0, NoUser, "none", "none", FALSE, NoUser, NoMsg)
          /\ UNCHANGED rooms
  /\ connectionToUserId' = [connectionToUserId EXCEPT ![ws] = NoConn]
  /\ allConnections' = allConnections \ {ws}
  /\ UNCHANGED <<config, clientVars, engineVars>>

OnError(ws) ==
  /\ wsState[ws] = "open"
  /\ handleDisconnect("error", ws, [wsState EXCEPT ![ws] = "errored"])

OnClose(ws) ==
  /\ wsState[ws] \in {"open", "errored"}
  /\ handleDisconnect("close", ws, [wsState EXCEPT ![ws] = "idle"])

\* ==== client (apps/client) ================================================
\* One client: the role and room state App.tsx keeps, the <video> element,
\* and the playback corrector of useSyncPlayback.ts.  Times are in units of
\* 100 ms.  A state update and the effects that depend on it are committed
\* before the next event is handled.  video.play() starts playback (the
\* browser allows it), so that video.paused is false when it returns.

\* ---- bounds of the client model ------------------------------------------
\* positions 0..MaxTime; drift thresholds syncMinAllowedDrift..
\* syncMinAllowedDrift + DriftSteps (the code allows 200 ms to 3000 ms)
MaxTime == 6
DriftSteps == 3

groupsPerSecond == 1
objectsPerGroup == 48
defaultMaxAllowedDrift == 5
syncMinAllowedDrift == 2
syncMaxAllowedDrift == syncMinAllowedDrift + DriftSteps
fallbackThreshold == 5

Times == 0..MaxTime

\* the positions a leader reports and a user seeks to
LeaderTimes == {0, MaxTime}

\* the user ids a room-state or user-left message may name
ClientIds == {1, 2}

NoRoomState == [null |-> TRUE]
NoPosition == [null |-> TRUE]
NoVideo == [mounted |-> FALSE]

Abs(x) == IF x < 0 THEN -x ELSE x

timeToGroup(timeSeconds) == (timeSeconds * groupsPerSecond) \div 10

timeToObject(timeSeconds) == ((timeSeconds % 10) * objectsPerGroup) \div 10

\* ---- SyncPlayService: the messages a leader's client sends ----------------
sendSyncUpdate(timestamp, groupId, objectId, isPlaying) ==
  [type |-> "sync-update", timestamp |-> timestamp, groupId |-> groupId,
   objectId |-> objectId, isPlaying |-> isPlaying]

\* seekTarget is undefined: JSON.stringify leaves the field out
sendPlaybackControl(action, timestamp, groupId, objectId) ==
  [type |-> "playback-control", action |-> action, timestamp |-> timestamp,
   groupId |-> groupId, objectId |-> objectId]

sendPlaybackControlSeek(timestamp, groupId, objectId, seekTarget) ==
  [type |-> "playback-control", action |-> "seek", timestamp |-> timestamp,
   groupId |-> groupId, objectId |-> objectId, seekTarget |-> seekTarget]

\* what broadcastPosition sends for a video
broadcastPosition(v) ==
  sendSyncUpdate(v.currentTime, timeToGroup(v.currentTime),
                 timeToObject(v.currentTime), ~v.paused)

\* what the leader's play, pause and seeking listeners send for a video
leaderControl(action, v) ==
  IF action = "seek"
  THEN sendPlaybackControlSeek(v.currentTime, timeToGroup(v.currentTime),
                               timeToObject(v.currentTime), v.currentTime)
  ELSE sendPlaybackControl(action, v.currentTime, timeToGroup(v.currentTime),
                           timeToObject(v.currentTime))

\* the messages the coordinator may relay to a client: those a leader's
\* client sends, and a seek that carries no seekTarget
RelayedSyncUpdates ==
  { broadcastPosition([currentTime |-> t, paused |-> p]) :
      t \in LeaderTimes, p \in BOOLEAN }

RelayedControls ==
  { leaderControl(a, [currentTime |-> t, paused |-> FALSE]) :
      a \in {"play", "pause", "seek"}, t \in LeaderTimes }
  \cup { sendPlaybackControl("seek", t, timeToGroup(t), timeToObject(t)) :
           t \in LeaderTimes }

\* ---- useSyncPlayback: the follower's corrector ----------------------------
\* mutant: the subscription does not depend on the role
Subscribed_AnyRole == userRole # "none"

\* the effect that subscribes handleMessage is active
Subscribed == userRole = "follower"

\* mutant: a drift equal to the threshold is corrected too
NeedsSync_AtThreshold(delta, threshold) == delta >= threshold

NeedsSync(delta, threshold) == delta > threshold

\* mutant: a playing follower is never paused
Reconcile_NeverPauses(isPlaying, paused) ==
  IF isPlaying /\ paused THEN FALSE ELSE paused

\* video.paused after the play/pause reconciliation
Reconcile(isPlaying, paused) ==
  IF isPlaying /\ paused THEN FALSE
  ELSE IF ~isPlaying /\ ~paused THEN TRUE
  ELSE paused

\* App.handleSyncRequired, up to its first await: leaderPositionRef.current
handleSyncRequired(targetTime, targetGroup) ==
  IF userRole = "follower"
  THEN [time |-> targetTime, group |-> targetGroup]
  ELSE leaderPositionRef

\* the video and leaderPositionRef.current after handleSyncUpdate(message)
followerSyncUpdate(message) ==
  IF video = NoVideo \/ isIndependentMode
  THEN [video |-> video, leaderPosition |-> leaderPositionRef]
  ELSE LET leaderTime == message.timestamp
           delta == Abs(video.currentTime - leaderTime)
       IN [video |->
             [currentTime |-> IF NeedsSync(delta, deltaThresholdRef)
                              THEN leaderTime ELSE video.currentTime,
              paused |-> Reconcile(message.isPlaying, video.paused)],
           leaderPosition |-> handleSyncRequired(leaderTime, message.groupId)]

\* mutant: a seek is applied only when the drift exceeds the threshold
followerPlaybackControl_SeekGated(message) ==
  IF video = NoVideo \/ isIndependentMode
  THEN [video |-> video, leaderPosition |-> leaderPositionRef]
  ELSE IF message.action = "seek" /\ "seekTarget" \in DOMAIN message
          /\ NeedsSync(Abs(video.currentTime - message.seekTarget), deltaThresholdRef)
       THEN [video |-> [video EXCEPT !.currentTime = message.seekTarget],
             leaderPosition |-> handleSyncRequired(message.seekTarget, message.groupId)]
       ELSE [video |-> video, leaderPosition |-> leaderPositionRef]

\* the video and leaderPositionRef.current after handlePlaybackControl(message)
followerPlaybackControl(message) ==
  IF video = NoVideo \/ isIndependentMode
  THEN [video |-> video, leaderPosition |-> leaderPositionRef]
  ELSE CASE message.action = "play" ->
              [video |-> [video EXCEPT !.paused = FALSE],
               leaderPosition |-> leaderPositionRef]
         [] message.action = "pause" ->
              [video |-> [video EXCEPT !.paused = TRUE],
               leaderPosition |-> leaderPositionRef]
         [] message.action = "seek" ->
              IF "seekTarget" \in DOMAIN message
              THEN [video |-> [video EXCEPT !.currentTime = message.seekTarget],
                    leaderPosition |->
                      handleSyncRequired(message.seekTarget, message.groupId)]
              ELSE [video |-> video, leaderPosition |-> leaderPositionRef]

\* ---- the fetch engine: settings and buffer helpers (App.tsx) --------------
\* DEFAULT_SETTINGS, in seconds
fetchAheadSeconds == 5
backBufferSeconds == 5
maxBufferSeconds == 20

\* a number of seconds in the unit of time of the model (100 ms)
Seconds(s) == s * 10

fetchAheadGroups == fetchAheadSeconds * groupsPerSecond

Max(a, b) == IF a > b THEN a ELSE b

Min(a, b) == IF a < b THEN a ELSE b

\* sourceBufferRef.current is null
NoSourceBuffer == 0

\* a SourceBuffer that is not updating; one that runs a remove()
NoPayload == -1
Removing == -2

\* the payload of a group is named by the group id; the init segment is
\* group 0 (object 0)
InitPayload == 0

NoCall == [none |-> TRUE]
NoFetch == [none |-> TRUE]
NoLoop == [pc |-> "none"]
NoRemoval == [none |-> TRUE]

isRangeBuffered(startGroup, endGroup) ==
  \A g \in startGroup..endGroup : g \in bufferedRangesRef

\* bufferedRangesRef.current after markGroupsBuffered on the set groups
markGroupsBuffered(groups, startGroup, endGroup) ==
  groups \cup (startGroup..endGroup)

\* the append queue, the busy flag and the SourceBuffers, as one value
AppendState ==
  [queue |-> appendQueueRef, appending |-> appendingRef, buffers |-> sourceBuffers,
   called |-> FALSE]

\* mutant: the newest payload of the queue is appended first
maybeAppend_NewestFirst(a, sb, throws) ==
  IF sb = NoSourceBuffer \/ a.appending \/ a.buffers[sb].updating # NoPayload
     \/ a.queue = <<>>
  THEN a
  ELSE IF throws
  THEN [a EXCEPT !.queue = SubSeq(a.queue, 1, Len(a.queue) - 1),
                 !.appending = FALSE, !.called = TRUE]
  ELSE [a EXCEPT !.queue = SubSeq(a.queue, 1, Len(a.queue) - 1),
                 !.appending = TRUE,
                 !.buffers[sb].updating = a.queue[Len(a.queue)],
                 !.called = TRUE]

\* maybeAppend of enqueueAppend and maybeAppendNext, on SourceBuffer sb:
\* takes the head of the queue and calls sb.appendBuffer, which starts the
\* append or throws (the payload taken is then lost)
maybeAppend(a, sb, throws) ==
  IF sb = NoSourceBuffer \/ a.appending \/ a.buffers[sb].updating # NoPayload
     \/ a.queue = <<>>
  THEN a
  ELSE IF throws
  THEN [a EXCEPT !.queue = Tail(a.queue), !.appending = FALSE, !.called = TRUE]
  ELSE [a EXCEPT !.queue = Tail(a.queue), !.appending = TRUE,
                 !.buffers[sb].updating = Head(a.queue), !.called = TRUE]

\* enqueueAppend(data): the data is dropped while there is no SourceBuffer
enqueueAppend(a, data, throws) ==
  IF sourceBufferRef = NoSourceBuffer
  THEN a
  ELSE maybeAppend([a EXCEPT !.queue = Append(a.queue, data)], sourceBufferRef, throws)

maybeAppendNext(a, throws) == maybeAppend(a, sourceBufferRef, throws)

\* ---- cleanupBuffer --------------------------------------------------------
RECURSIVE totalDuration(_)
totalDuration(ranges) ==
  IF ranges = <<>> THEN 0
  ELSE (Head(ranges).end - Head(ranges).start) + totalDuration(Tail(ranges))

NonEmptyRange(r) == r.end > r.start

\* mutant: the old tail is trimmed up to the playhead
TrimOldTail_ToPlayhead(firstRange, mainStart, t) ==
  [start |-> firstRange.start, end |-> Min(firstRange.end, t), rule |-> "old-tail"]

\* the part of the first range that lies before the main window
TrimOldTail(firstRange, mainStart, t) ==
  [start |-> firstRange.start, end |-> mainStart, rule |-> "old-tail"]

\* the range cleanupBuffer removes from a SourceBuffer whose buffered ranges
\* are timeRanges when the playhead is at currentTimeSeconds (NoRemoval if it
\* removes nothing)
cleanupBuffer(timeRanges, currentTimeSeconds) ==
  LET t == currentTimeSeconds
      back == Seconds(backBufferSeconds)
      ahead == Seconds(fetchAheadSeconds)
      totalBudget == Seconds(maxBufferSeconds)
      mainStart == Max(0, t - back)
      mainEnd == t + ahead
      ranges == SelectSeq(timeRanges, NonEmptyRange)
  IN IF Len(timeRanges) = 0 \/ Len(ranges) = 0 \/ totalDuration(ranges) <= totalBudget
     THEN NoRemoval
     ELSE LET firstRange == ranges[1]
              lastRange == ranges[Len(ranges)]
              chosen ==
                IF firstRange.end <= mainStart
                THEN [start |-> firstRange.start, end |-> firstRange.end, rule |-> "old"]
                ELSE IF lastRange.start >= mainEnd
                THEN [start |-> lastRange.start, end |-> lastRange.end, rule |-> "future"]
                ELSE IF firstRange.start < mainStart /\ firstRange.end > mainStart
                THEN TrimOldTail(firstRange, mainStart, t)
                ELSE IF lastRange.start < mainEnd /\ lastRange.end > mainEnd
                THEN [start |-> mainEnd, end |-> lastRange.end, rule |-> "future-head"]
                ELSE [start |-> firstRange.start,
                      end |-> Min(firstRange.end, Max(0, t - back)),
                      rule |-> "fallback"]
          IN IF chosen.end > chosen.start THEN chosen ELSE NoRemoval

\* the groups cleanupBuffer deletes from bufferedRangesRef for a removal
removedGroups(removal) ==
  IF removal = NoRemoval THEN {}
  ELSE timeToGroup(removal.start)..timeToGroup(removal.end)

\* SourceBuffer.buffered of a SourceBuffer that holds the groups of the set
\* appended: group g >= 1 is taken to cover the second that timeToGroup maps
\* to g, and a run of adjacent groups is one range
RECURSIVE bufferedFrom(_, _)
bufferedFrom(appended, g) ==
  IF \A h \in appended : h < g THEN <<>>
  ELSE IF g \notin appended THEN bufferedFrom(appended, g + 1)
  ELSE LET end == CHOOSE e \in (g + 1)..(g + Cardinality(appended)) :
                    /\ e \notin appended
                    /\ \A h \in g..(e - 1) : h \in appended
       IN <<[start |-> Seconds(g) \div groupsPerSecond,
             end |-> Seconds(end) \div groupsPerSecond]>>
          \o bufferedFrom(appended, end)

buffered(sb) == bufferedFrom(sb.appended, 1)

\* a SourceBuffer after remove(removal.start, removal.end): the groups that
\* lie wholly inside the removed range are gone
removeFrom(sb, removal) ==
  [sb EXCEPT !.updating = Removing,
             !.appended = { g \in @ : ~(/\ g >= 1
                                       /\ removal.start <= Seconds(g) \div groupsPerSecond
                                       /\ Seconds(g + 1) \div groupsPerSecond <= removal.end) }]

\* ---- the steps of the client ----------------------------------------------
ClientHandled(op, message) ==
  [op |-> op, msg |-> message, video |-> video, role |-> userRole,
   independent |-> isIndependentMode]

\* the leader position a message reports
ReportedBy(message) ==
  IF message.type = "sync-update"
  THEN [time |-> message.timestamp, group |-> message.groupId]
  ELSE IF message.action = "seek" /\ "seekTarget" \in DOMAIN message
  THEN [time |-> message.seekTarget, group |-> message.groupId]
  ELSE reported

\* the socket delivers a sync-update
ClientSyncUpdate(message) ==
  /\ clientLast' = ClientHandled("sync-update", message)
  /\ IF Subscribed
     THEN LET result == followerSyncUpdate(message) IN
          /\ video' = result.video
          /\ leaderPositionRef' = result.leaderPosition
          /\ reported' = IF video # NoVideo THEN ReportedBy(message) ELSE reported
     ELSE UNCHANGED <<video, leaderPositionRef, reported>>
  /\ UNCHANGED <<userRole, roomState, isIndependentMode, deltaThresholdRef, serverVars, engineVars>>

\* the socket delivers a playback-control
ClientPlaybackControl(message) ==
  /\ clientLast' = ClientHandled("playback-control", message)
  /\ IF Subscribed
     THEN LET result == followerPlaybackControl(message) IN
          /\ video' = result.video
          /\ leaderPositionRef' = result.leaderPosition
          /\ reported' = IF video # NoVideo THEN ReportedBy(message) ELSE reported
     ELSE UNCHANGED <<video, leaderPositionRef, reported>>
  /\ UNCHANGED <<userRole, roomState, isIndependentMode, deltaThresholdRef, serverVars, engineVars>>

\* service.onRoomState: the socket delivers a room-state
ClientRoomState(state) ==
  /\ roomState' = state
  /\ userRole' = state.role
  /\ clientLast' = ClientHandled("room-state", NoMsg)
  /\ UNCHANGED <<isIndependentMode, leaderPositionRef, video, deltaThresholdRef,
                 reported, serverVars, engineVars>>

\* service.onMessage: the socket delivers a user-left
ClientUserLeft(newLeaderId) ==
  /\ IF roomState = NoRoomState
     THEN UNCHANGED <<roomState, userRole>>
     ELSE LET promoted == newLeaderId # NoUser /\ newLeaderId = roomState.userId
              newRole == IF promoted THEN "leader" ELSE userRole
          IN /\ roomState' =
                  [roomState EXCEPT
                     !.role = IF promoted THEN "leader" ELSE @,
                     !.leaderId = IF newLeaderId # NoUser THEN newLeaderId ELSE @]
             /\ userRole' = newRole
  /\ clientLast' = ClientHandled("user-left", NoMsg)
  /\ UNCHANGED <<isIndependentMode, leaderPositionRef, video, deltaThresholdRef,
                 reported, serverVars, engineVars>>

\* the <video> element is mounted once the room page has a videoUrl
MountVideo ==
  /\ roomState # NoRoomState
  /\ video = NoVideo
  /\ video' = [currentTime |-> 0, paused |-> TRUE]
  /\ clientLast' = ClientHandled("mount", NoMsg)
  /\ UNCHANGED <<userRole, roomState, isIndependentMode, leaderPositionRef,
                 deltaThresholdRef, reported, serverVars, engineVars>>

\* App.handleLeaveRoom
ClientLeaveRoom ==
  /\ roomState # NoRoomState
  /\ video' = NoVideo
  /\ userRole' = "none"
  /\ roomState' = NoRoomState
  /\ isIndependentMode' = FALSE
  /\ reported' = NoPosition
  /\ clientLast' = ClientHandled("leave", NoMsg)
  /\ streamingRef' = FALSE
  /\ sourceBufferRef' = NoSourceBuffer
  /\ hasJumpedAheadRef' = FALSE
  /\ UNCHANGED <<leaderPositionRef, deltaThresholdRef, serverVars, auxVars,
                 nextGroupRef, bufferedRangesRef, isSeeking, appendQueueRef,
                 appendingRef, sourceBuffers, requestState, joinRoomClosure,
                 relaySubscribed, joinCall, streamLoop, syncFetch, seekFetch,
                 faults, fetchLast>>

\* App.handleToggleIndependentMode
ToggleIndependentMode ==
  /\ userRole = "follower"
  /\ isIndependentMode' = ~isIndependentMode
  /\ video' = IF isIndependentMode /\ video # NoVideo /\ leaderPositionRef # NoPosition
              THEN [video EXCEPT !.currentTime = leaderPositionRef.time]
              ELSE video
  /\ clientLast' = ClientHandled("toggle", NoMsg)
  /\ UNCHANGED <<userRole, roomState, leaderPositionRef, deltaThresholdRef,
                 reported, serverVars, engineVars>>

\* SyncStatusIndicator.handleAdjustThreshold, on the buttons that a follower
\* is shown, and the effect that copies syncConfig.deltaThresholdSeconds to
\* deltaThresholdRef
AdjustThreshold(increment) ==
  /\ roomState # NoRoomState
  /\ userRole = "follower"
  /\ ~isIndependentMode
  /\ LET threshold == IF userRole = "follower" THEN deltaThresholdRef
                      ELSE fallbackThreshold
         raised == IF threshold + increment < syncMaxAllowedDrift
                   THEN threshold + increment ELSE syncMaxAllowedDrift
         newThreshold == IF raised > syncMinAllowedDrift
                         THEN raised ELSE syncMinAllowedDrift
     IN /\ IF increment < 0 THEN threshold > syncMinAllowedDrift
           ELSE threshold < syncMaxAllowedDrift
        /\ deltaThresholdRef' = newThreshold
  /\ clientLast' = ClientHandled("adjust", NoMsg)
  /\ UNCHANGED <<userRole, roomState, isIndependentMode, leaderPositionRef, video,
                 reported, serverVars, engineVars>>

\* the <video> controls are shown
Controls == userRole = "leader" \/ (userRole = "follower" /\ isIndependentMode)

\* the user (or the leader's auto-play) plays, pauses or seeks the video
VideoControl(action, target) ==
  /\ video # NoVideo
  /\ Controls
  /\ CASE action = "play" -> video.paused /\ video' = [video EXCEPT !.paused = FALSE]
       [] action = "pause" -> ~video.paused /\ video' = [video EXCEPT !.paused = TRUE]
       [] action = "seek" -> /\ target # video.currentTime
                             /\ video' = [video EXCEPT !.currentTime = target]
  /\ clientLast' = ClientHandled(action, NoMsg)
  /\ UNCHANGED <<userRole, roomState, isIndependentMode, leaderPositionRef,
                 deltaThresholdRef, reported, serverVars, engineVars>>

\* playback advances the position of a playing video
VideoTimeAdvance ==
  /\ video # NoVideo
  /\ ~video.paused
  /\ video.currentTime < MaxTime
  /\ video' = [video EXCEPT !.currentTime = @ + 1]
  /\ clientLast' = ClientHandled("time", NoMsg)
  /\ UNCHANGED <<userRole, roomState, isIndependentMode, leaderPositionRef,
                 deltaThresholdRef, reported, serverVars, engineVars>>

\* ---- the fetch engine: its steps (App.tsx) --------------------------------
\* at most MaxSessions MediaSources are created; the leader's positions and
\* the seek targets are the starts of the groups 0 and SeekGroup
MaxSessions == 2
SeekGroup == 2

\* at most MaxFaults fetches fail or appendBuffer calls throw; a fetch
\* completes only while the append queue holds fewer than MaxQueue payloads
\* (FetchQueue where failures are left out); a second join is explored from
\* a client that has buffered no group beyond RejoinGroups
MaxFaults == 1
MaxQueue == 2
FetchQueue == 1
RejoinGroups == 1

\* a fetch may fail, or an appendBuffer call throw, in this step
MayFail == faults < MaxFaults

\* the step appends with AppendState a, and appendBuffer throws in it if
\* throws holds
Appends(a, throws) ==
  /\ throws => (MayFail /\ a.called)
  /\ faults' = IF throws THEN faults + 1 ELSE faults
  /\ appendQueueRef' = a.queue
  /\ appendingRef' = a.appending

\* a fetch may complete
QueueBelow(n) == Len(appendQueueRef) < n

\* neither handleSyncRequired nor handleSeeking is in flight
NoAuxFetch == syncFetch = NoFetch /\ seekFetch = NoFetch

FetchTimes == {Seconds(0) \div groupsPerSecond, Seconds(SeekGroup) \div groupsPerSecond}

\* mutant: the loop fetches one group further ahead
maxGroupToFetch_OneMore(currentGroup) == currentGroup + fetchAheadGroups + 1

maxGroupToFetch(currentGroup) == currentGroup + fetchAheadGroups

\* the time and group a loop iteration works with, in a loop whose closure
\* holds the role loopRole
effectivePosition(loopRole) ==
  IF loopRole = "follower" /\ leaderPositionRef # NoPosition
  THEN [time |-> leaderPositionRef.time, group |-> leaderPositionRef.group]
  ELSE LET currentTimeSeconds == IF video = NoVideo THEN 0 ELSE video.currentTime
       IN [time |-> currentTimeSeconds, group |-> timeToGroup(currentTimeSeconds)]

\* the follower's initial jump is taken in this iteration
jumpsAhead(loopRole, currentGroup) ==
  /\ loopRole = "follower"
  /\ leaderPositionRef # NoPosition
  /\ ~hasJumpedAheadRef
  /\ currentGroup > 1

\* the least group of from..to that is not in groups (to + 1 if there is none)
firstUnbuffered(groups, from, to) ==
  IF \E g \in from..to : g \notin groups
  THEN CHOOSE g \in from..to : g \notin groups /\ \A h \in from..(g - 1) : h \in groups
  ELSE to + 1

\* the SourceBuffers and the buffered set after cleanupBuffer(currentTimeSeconds)
cleaned(buffers, groups, currentTimeSeconds) ==
  LET sb == sourceBufferRef IN
  IF sb = NoSourceBuffer THEN [buffers |-> buffers, groups |-> groups]
  ELSE IF buffers[sb].updating # NoPayload THEN [buffers |-> buffers, groups |-> groups]
  ELSE LET removal == cleanupBuffer(buffered(buffers[sb]), currentTimeSeconds)
       IN IF removal = NoRemoval THEN [buffers |-> buffers, groups |-> groups]
          ELSE [buffers |-> [buffers EXCEPT ![sb] = removeFrom(@, removal)],
                groups |-> groups \ removedGroups(removal)]

\* the user clicks join in the lobby: handleJoinRoom starts with the closure
\* of the render it was memoised in, and sends the join request
handleJoinRoomStart ==
  /\ joinCall = NoCall
  /\ roomState = NoRoomState
  /\ Len(sourceBuffers) < MaxSessions
  /\ joinCall' = [userRole |-> joinRoomClosure]
  /\ fetchLast' = [op |-> "join"]
  /\ UNCHANGED <<faults, streamingRef, nextGroupRef, bufferedRangesRef, hasJumpedAheadRef,
                 isSeeking, appendQueueRef, appendingRef, sourceBufferRef,
                 sourceBuffers, requestState, joinRoomClosure, relaySubscribed,
                 streamLoop, syncFetch, seekFetch, serverVars, auxVars, clientVars>>

\* the coordinator answered with an error: handleJoinRoom returns
handleJoinRoomRejected ==
  /\ joinCall # NoCall
  /\ roomState = NoRoomState
  /\ joinCall' = NoCall
  /\ requestState' = [error |-> TRUE]
  /\ fetchLast' = [op |-> "join-rejected"]
  /\ UNCHANGED <<faults, streamingRef, nextGroupRef, bufferedRangesRef, hasJumpedAheadRef,
                 isSeeking, appendQueueRef, appendingRef, sourceBufferRef,
                 sourceBuffers, joinRoomClosure, relaySubscribed,
                 streamLoop, syncFetch, seekFetch, serverVars, auxVars, clientVars>>

\* the room-state arrived: handleJoinRoom goes on to handleJoinRoomClick, up
\* to the request of the init segment (the MediaSource opens and gets its
\* SourceBuffer).  setRelaySubscribed(true) makes React memoise a new
\* handleJoinRoom, whose closure holds the userRole of that render.
handleJoinRoomClick ==
  /\ joinCall # NoCall
  /\ roomState # NoRoomState
  /\ relaySubscribed' = TRUE
  /\ joinRoomClosure' = IF relaySubscribed THEN joinRoomClosure ELSE userRole
  /\ requestState' = [error |-> FALSE]
  /\ streamingRef' = TRUE
  /\ nextGroupRef' = 1
  /\ sourceBuffers' = Append(sourceBuffers, [updating |-> NoPayload, appended |-> {}])
  /\ sourceBufferRef' = Len(sourceBuffers) + 1
  /\ streamLoop' = [pc |-> "init", userRole |-> joinCall.userRole]
  /\ oldLoop' = IF streamLoop = NoLoop THEN oldLoop ELSE streamLoop
  /\ joinCall' = NoCall
  /\ fetchLast' = [op |-> "start"]
  /\ UNCHANGED <<faults, bufferedRangesRef, hasJumpedAheadRef, isSeeking, appendQueueRef,
                 appendingRef, syncFetch, seekFetch, serverVars, evictVars,
                 serviceVars, clientVars>>

\* service.onConfig: setServerConfig makes React memoise a new handleJoinRoom.
\* The client asks for the config when it connects, and again after it left
\* a room: the answer arrives in the lobby.
ConfigReceived ==
  /\ roomState = NoRoomState /\ joinCall = NoCall
  /\ joinRoomClosure # userRole
  /\ joinRoomClosure' = userRole
  /\ fetchLast' = [op |-> "config"]
  /\ UNCHANGED <<faults, streamingRef, nextGroupRef, bufferedRangesRef, hasJumpedAheadRef,
                 isSeeking, appendQueueRef, appendingRef, sourceBufferRef,
                 sourceBuffers, requestState, relaySubscribed, joinCall,
                 streamLoop, syncFetch, seekFetch, serverVars, auxVars, clientVars>>

\* the init segment arrived: it is queued, group 0 is marked and the loop starts
InitFetched(throws) ==
  /\ streamLoop.pc = "init"
  /\ LET a == enqueueAppend(AppendState, InitPayload, throws) IN
     /\ Appends(a, throws)
     /\ sourceBuffers' = a.buffers
     /\ fetchLast' = [op |-> "init-fetched", threw |-> a.called /\ throws]
  /\ bufferedRangesRef' = bufferedRangesRef \cup {0}
  /\ streamLoop' = [pc |-> "head", userRole |-> streamLoop.userRole]
  /\ UNCHANGED <<streamingRef, nextGroupRef, hasJumpedAheadRef, isSeeking,
                 sourceBufferRef, requestState, joinRoomClosure, relaySubscribed,
                 joinCall, syncFetch, seekFetch, serverVars, auxVars, clientVars>>

\* the request of the init segment failed
InitFailed ==
  /\ MayFail
  /\ faults' = faults + 1
  /\ streamLoop.pc = "init"
  /\ requestState' = [error |-> TRUE]
  /\ streamingRef' = FALSE
  /\ streamLoop' = NoLoop
  /\ fetchLast' = [op |-> "init-failed"]
  /\ UNCHANGED <<nextGroupRef, bufferedRangesRef, hasJumpedAheadRef, isSeeking,
                 appendQueueRef, appendingRef, sourceBufferRef, sourceBuffers,
                 joinRoomClosure, relaySubscribed, joinCall, syncFetch, seekFetch,
                 serverVars, auxVars, clientVars>>

\* one iteration of the streaming loop, up to its fetch if it makes one
LoopIterationOf(loop, loopAfter) ==
  /\ loop.pc = "head"
  /\ IF ~streamingRef
     THEN /\ loopAfter = NoLoop
          /\ fetchLast' = [op |-> "loop-exit"]
          /\ UNCHANGED <<nextGroupRef, bufferedRangesRef, hasJumpedAheadRef,
                         sourceBuffers>>
     ELSE LET loopRole == loop.userRole
              position == effectivePosition(loopRole)
              maxGroup == maxGroupToFetch(position.group)
              jump == jumpsAhead(loopRole, position.group)
              cursor == IF jump THEN Max(1, position.group - 2) ELSE nextGroupRef
              fetches == cursor <= maxGroup /\ ~isRangeBuffered(cursor, cursor)
              after == cleaned(sourceBuffers, bufferedRangesRef, position.time)
          IN /\ hasJumpedAheadRef' = (hasJumpedAheadRef \/ jump)
             /\ fetchLast' = [op |-> "loop", role |-> userRole,
                              leaderPosition |-> leaderPositionRef,
                              localTime |-> IF video = NoVideo THEN 0
                                            ELSE video.currentTime,
                              position |-> position, maxGroup |-> maxGroup,
                              jumped |-> jump, hadJumped |-> hasJumpedAheadRef,
                              nextGroup |-> nextGroupRef,
                              groups |-> bufferedRangesRef]
             /\ IF fetches
                THEN /\ loopAfter = [pc |-> "fetch", userRole |-> loopRole,
                                       targetGroup |-> cursor,
                                       currentTimeSeconds |-> position.time,
                                       maxGroup |-> maxGroup]
                     /\ nextGroupRef' = cursor
                     /\ UNCHANGED <<bufferedRangesRef, sourceBuffers>>
                ELSE /\ loopAfter = loop
                     /\ nextGroupRef' = IF cursor <= maxGroup THEN cursor + 1 ELSE cursor
                     /\ sourceBuffers' = after.buffers
                     /\ bufferedRangesRef' = after.groups
  /\ UNCHANGED <<faults, streamingRef, isSeeking, appendQueueRef, appendingRef,
                 sourceBufferRef, requestState, joinRoomClosure, relaySubscribed,
                 joinCall, syncFetch, seekFetch, serverVars, evictVars, serviceVars, clientVars>>

\* the step of the loop of the current session
LoopIteration == LoopIterationOf(streamLoop, streamLoop') /\ UNCHANGED oldLoop

\* the same step of the loop that the session before left running
OldLoopIteration == LoopIterationOf(oldLoop, oldLoop') /\ UNCHANGED streamLoop

\* the loop's fetch completed: the payload is queued, the group is marked and
\* the cursor is set behind it; then cleanupBuffer runs
LoopFetchDoneOf(loop, loopAfter, throws) ==
  /\ loop.pc = "fetch"
  /\ LET targetGroup == loop.targetGroup
         a == enqueueAppend(AppendState, targetGroup, throws)
         after == cleaned(a.buffers,
                          markGroupsBuffered(bufferedRangesRef, targetGroup, targetGroup),
                          loop.currentTimeSeconds)
     IN /\ Appends(a, throws)
        /\ sourceBuffers' = after.buffers
        /\ bufferedRangesRef' = after.groups
        /\ nextGroupRef' = targetGroup + 1
        /\ fetchLast' = [op |-> "loop-fetched", group |-> targetGroup,
                         maxGroup |-> loop.maxGroup,
                         cursor |-> nextGroupRef,
                         threw |-> a.called /\ throws]
  /\ loopAfter = [pc |-> "head", userRole |-> loop.userRole]
  /\ UNCHANGED <<streamingRef, hasJumpedAheadRef, isSeeking, sourceBufferRef,
                 requestState, joinRoomClosure, relaySubscribed, joinCall,
                 syncFetch, seekFetch, serverVars, evictVars, serviceVars, clientVars>>

\* the step of the loop of the current session
LoopFetchDone(throws) == LoopFetchDoneOf(streamLoop, streamLoop', throws) /\ UNCHANGED oldLoop

\* the same step of the loop that the session before left running
OldLoopFetchDone(throws) == LoopFetchDoneOf(oldLoop, oldLoop', throws) /\ UNCHANGED streamLoop

\* the loop's fetch failed: the loop ends and the error is recorded
LoopFetchFailed ==
  /\ MayFail
  /\ faults' = faults + 1
  /\ streamLoop.pc = "fetch"
  /\ requestState' = [error |-> TRUE]
  /\ streamingRef' = FALSE
  /\ streamLoop' = NoLoop
  /\ fetchLast' = [op |-> "loop-fetch-failed", group |-> streamLoop.targetGroup]
  /\ UNCHANGED <<nextGroupRef, bufferedRangesRef, hasJumpedAheadRef, isSeeking,
                 appendQueueRef, appendingRef, sourceBufferRef, sourceBuffers,
                 joinRoomClosure, relaySubscribed, joinCall, syncFetch, seekFetch,
                 serverVars, auxVars, clientVars>>

\* handleSyncRequired goes on from group `from`: to its next fetch, or to its end
SyncContinue(targetGroup, from, groups) ==
  LET endGroup == targetGroup + fetchAheadGroups - 1
      lastGroup == Min(targetGroup + 10, endGroup)
      g == firstUnbuffered(groups, from, lastGroup)
  IN IF g <= lastGroup
     THEN /\ syncFetch' = [targetGroup |-> targetGroup, g |-> g]
          /\ UNCHANGED nextGroupRef
     ELSE /\ syncFetch' = NoFetch
          /\ nextGroupRef' = Max(nextGroupRef, targetGroup + fetchAheadGroups)

\* the corrector calls onSyncRequired(targetTime, targetGroup) for a
\* sync-update or a seek of the leader
SyncRequired(targetTime, targetGroup) ==
  /\ Subscribed /\ video # NoVideo /\ ~isIndependentMode
  /\ syncFetch = NoFetch
  /\ leaderPositionRef' = handleSyncRequired(targetTime, targetGroup)
  /\ SyncContinue(targetGroup, targetGroup, bufferedRangesRef)
  /\ fetchLast' = [op |-> "sync", group |-> targetGroup, cursor |-> nextGroupRef]
  /\ UNCHANGED <<faults, streamingRef, bufferedRangesRef, hasJumpedAheadRef, isSeeking,
                 appendQueueRef, appendingRef, sourceBufferRef, sourceBuffers,
                 requestState, joinRoomClosure, relaySubscribed, joinCall,
                 streamLoop, seekFetch, serverVars, auxVars, userRole, roomState,
                 isIndependentMode, video, deltaThresholdRef, reported, clientLast>>

\* a fetch of handleSyncRequired completed
SyncFetchDone(throws) ==
  /\ syncFetch # NoFetch
  /\ LET a == enqueueAppend(AppendState, syncFetch.g, throws)
         groups == markGroupsBuffered(bufferedRangesRef, syncFetch.g, syncFetch.g)
     IN /\ Appends(a, throws)
        /\ sourceBuffers' = a.buffers
        /\ bufferedRangesRef' = groups
        /\ SyncContinue(syncFetch.targetGroup, syncFetch.g + 1, groups)
        /\ fetchLast' = [op |-> "sync-fetched", group |-> syncFetch.g,
                         cursor |-> nextGroupRef, threw |-> a.called /\ throws]
  /\ UNCHANGED <<streamingRef, hasJumpedAheadRef, isSeeking, sourceBufferRef,
                 requestState, joinRoomClosure, relaySubscribed, joinCall,
                 streamLoop, seekFetch, serverVars, auxVars, clientVars>>

\* a fetch of handleSyncRequired failed: the error is logged
SyncFetchFailed ==
  /\ MayFail
  /\ faults' = faults + 1
  /\ syncFetch # NoFetch
  /\ SyncContinue(syncFetch.targetGroup, syncFetch.g + 1, bufferedRangesRef)
  /\ fetchLast' = [op |-> "sync-fetch-failed", group |-> syncFetch.g,
                   cursor |-> nextGroupRef]
  /\ UNCHANGED <<streamingRef, bufferedRangesRef, hasJumpedAheadRef, isSeeking,
                 appendQueueRef, appendingRef, sourceBufferRef, sourceBuffers,
                 requestState, joinRoomClosure, relaySubscribed, joinCall,
                 streamLoop, seekFetch, serverVars, auxVars, clientVars>>

\* handleSeeking goes on from group `from`: to its next fetch, or to its end
SeekContinue(seekGroup, from, groups) ==
  LET lastGroup == Min(seekGroup + fetchAheadGroups - 1, seekGroup + 20)
      g == firstUnbuffered(groups, from, lastGroup)
  IN IF g <= lastGroup
     THEN /\ seekFetch' = [seekGroup |-> seekGroup, g |-> g]
          /\ isSeeking' = TRUE
          /\ requestState' = IF isSeeking THEN requestState ELSE [error |-> FALSE]
          /\ UNCHANGED nextGroupRef
     ELSE /\ seekFetch' = NoFetch
          /\ isSeeking' = FALSE
          /\ requestState' = [error |-> FALSE]
          /\ nextGroupRef' = seekGroup + fetchAheadGroups

\* the video seeks to seekTime (the user's control or the corrector) and the
\* seeking listener, handleSeeking, runs
handleSeeking(seekTime) ==
  /\ video # NoVideo
  /\ seekTime # video.currentTime
  /\ video' = [video EXCEPT !.currentTime = seekTime]
  /\ LET seekGroup == timeToGroup(seekTime)
         endGroup == seekGroup + fetchAheadGroups - 1
     IN IF isSeeking
        THEN UNCHANGED <<isSeeking, seekFetch, requestState, nextGroupRef>>
        ELSE IF ~isRangeBuffered(seekGroup, Min(seekGroup + 5, endGroup))
        THEN SeekContinue(seekGroup, seekGroup, bufferedRangesRef)
        ELSE /\ nextGroupRef' = Max(nextGroupRef, seekGroup + fetchAheadGroups)
             /\ UNCHANGED <<isSeeking, seekFetch, requestState>>
  /\ fetchLast' = [op |-> "seek", group |-> timeToGroup(seekTime),
                   cursor |-> nextGroupRef, ignored |-> isSeeking]
  /\ UNCHANGED <<faults, streamingRef, bufferedRangesRef, hasJumpedAheadRef,
                 appendQueueRef, appendingRef, sourceBufferRef, sourceBuffers,
                 joinRoomClosure, relaySubscribed, joinCall, streamLoop, syncFetch,
                 serverVars, auxVars, userRole, roomState, isIndependentMode,
                 leaderPositionRef, deltaThresholdRef, reported, clientLast>>

\* a fetch of handleSeeking completed
SeekFetchDone(throws) ==
  /\ seekFetch # NoFetch
  /\ LET a == enqueueAppend(AppendState, seekFetch.g, throws)
         groups == markGroupsBuffered(bufferedRangesRef, seekFetch.g, seekFetch.g)
     IN /\ Appends(a, throws)
        /\ sourceBuffers' = a.buffers
        /\ bufferedRangesRef' = groups
        /\ SeekContinue(seekFetch.seekGroup, seekFetch.g + 1, groups)
        /\ fetchLast' = [op |-> "seek-fetched", group |-> seekFetch.g,
                         cursor |-> nextGroupRef, threw |-> a.called /\ throws]
  /\ UNCHANGED <<streamingRef, hasJumpedAheadRef, sourceBufferRef,
                 joinRoomClosure, relaySubscribed, joinCall, streamLoop, syncFetch,
                 serverVars, auxVars, clientVars>>

\* a fetch of handleSeeking failed: the error is recorded and the rest of the
\* range is given up
SeekFetchFailed ==
  /\ MayFail
  /\ faults' = faults + 1
  /\ seekFetch # NoFetch
  /\ requestState' = [error |-> TRUE]
  /\ isSeeking' = FALSE
  /\ seekFetch' = NoFetch
  /\ fetchLast' = [op |-> "seek-fetch-failed", group |-> seekFetch.g,
                   cursor |-> nextGroupRef]
  /\ UNCHANGED <<streamingRef, nextGroupRef, bufferedRangesRef, hasJumpedAheadRef,
                 appendQueueRef, appendingRef, sourceBufferRef, sourceBuffers,
                 joinRoomClosure, relaySubscribed, joinCall, streamLoop, syncFetch,
                 serverVars, auxVars, clientVars>>

\* SourceBuffer sb ends its append or remove; its updateend listener clears
\* the busy flag and calls maybeAppendNext
UpdateEnd(sb, throws) ==
  /\ sb \in DOMAIN sourceBuffers
  /\ sourceBuffers[sb].updating # NoPayload
  /\ LET payload == sourceBuffers[sb].updating
         done == [sourceBuffers EXCEPT
                    ![sb].updating = NoPayload,
                    ![sb].appended = IF payload = Removing THEN @ ELSE @ \cup {payload}]
         a == maybeAppendNext([AppendState EXCEPT !.appending = FALSE,
                                                  !.buffers = done], throws)
     IN /\ Appends(a, throws)
        /\ sourceBuffers' = a.buffers
        /\ fetchLast' = [op |-> "updateend", group |-> payload,
                         queue |-> appendQueueRef, threw |-> a.called /\ throws]
  /\ UNCHANGED <<streamingRef, nextGroupRef, bufferedRangesRef, hasJumpedAheadRef,
                 isSeeking, sourceBufferRef, requestState, joinRoomClosure,
                 relaySubscribed, joinCall, streamLoop, syncFetch, seekFetch,
                 serverVars, auxVars, clientVars>>

\* the fetch engine before the first join
FetchStart ==
  /\ streamingRef = FALSE
  /\ nextGroupRef = 1
  /\ bufferedRangesRef = {}
  /\ hasJumpedAheadRef = FALSE
  /\ isSeeking = FALSE
  /\ appendQueueRef = <<>>
  /\ appendingRef = FALSE
  /\ sourceBufferRef = NoSourceBuffer
  /\ sourceBuffers = <<>>
  /\ requestState = [error |-> FALSE]
  /\ joinRoomClosure = "none"
  /\ relaySubscribed = FALSE
  /\ joinCall = NoCall
  /\ streamLoop = NoLoop
  /\ syncFetch = NoFetch
  /\ seekFetch = NoFetch
  /\ faults = 0
  /\ fetchLast = [op |-> "init"]
  /\ oldLoop = NoLoop

\* ---- cleanupBuffer on its own ---------------------------------------------
\* bounds: the buffered ranges start and end on a grid of GridPoints steps of
\* GridSeconds seconds, and there are at most MaxRanges of them
GridSeconds == 5
GridPoints == 10
MaxRanges == 3

Grid == { Seconds(GridSeconds) * k : k \in 0..GridPoints }

\* the playhead also stands between two points of the grid
EvictTimes == { (Seconds(GridSeconds) * k) \div 2 : k \in 0..(2 * GridPoints) }

\* the TimeRanges whose starts and ends are the points of the set S, in order
RECURSIVE RangesOf(_)
RangesOf(S) ==
  IF S = {} THEN <<>>
  ELSE LET a == CHOOSE x \in S : \A y \in S : x <= y
           b == CHOOSE x \in S \ {a} : \A y \in S \ {a} : x <= y
       IN <<[start |-> a, end |-> b]>> \o RangesOf(S \ {a, b})

Layouts ==
  { RangesOf(S) : S \in { T \in SUBSET Grid :
                            Cardinality(T) \in { 2 * n : n \in 0..MaxRanges } } }

\* SourceBuffer.buffered after remove(from, to)
RECURSIVE removeRange(_, _, _)
removeRange(ranges, from, to) ==
  IF ranges = <<>> THEN <<>>
  ELSE LET r == Head(ranges)
           left == IF r.start < Min(r.end, from)
                   THEN <<[start |-> r.start, end |-> Min(r.end, from)]>>
                   ELSE <<>>
           right == IF Max(r.start, to) < r.end
                    THEN <<[start |-> Max(r.start, to), end |-> r.end]>>
                    ELSE <<>>
       IN left \o right \o removeRange(Tail(ranges), from, to)

EvictStart ==
  /\ evBuffered = <<>>
  /\ evTime = 0
  /\ evRemoved = NoRemoval

\* the loop calls cleanupBuffer(evTime) on an idle SourceBuffer
Evict ==
  LET removal == cleanupBuffer(evBuffered, evTime) IN
  /\ evRemoved' = removal
  /\ evBuffered' = IF removal = NoRemoval THEN evBuffered
                   ELSE removeRange(evBuffered, removal.start, removal.end)
  /\ UNCHANGED <<evTime, serverVars, clientVars, fetchVars, serviceVars, overlapVars>>

\* the playhead is at currentTimeSeconds in the next iteration
PlayheadAt(currentTimeSeconds) ==
  /\ evTime' = currentTimeSeconds
  /\ evRemoved' = NoRemoval
  /\ UNCHANGED <<evBuffered, serverVars, clientVars, fetchVars, serviceVars, overlapVars>>

\* ---- SyncPlayService: the connection to the coordinator --------------------
wsReconnectDelayMs == 3000

\* bounds: the WebSockets one run creates and the join requests a user makes
MaxSockets == 3
NumJoinRequests == 2

NoSocket == 0
NoJoin == 0
JoinRequests == 1..NumJoinRequests

ServiceStart ==
  /\ sockets = <<>>
  /\ serviceWs = NoSocket
  /\ shouldReconnect = FALSE
  /\ reconnectTimeout = FALSE
  /\ reconnectTimers = 0
  /\ lastJoinMessage = NoJoin
  /\ appReconnect = FALSE
  /\ answers = [m \in JoinRequests |-> "none"]
  /\ currentPage = "lobby"
  /\ joining = NoJoin
  /\ serviceLast = [op |-> "init"]

\* isConnected / the test of send: this.ws is set and open, with the
\* WebSockets in the states socks
CanSend(current, socks) == current # NoSocket /\ socks[current].readyState = "open"

\* mutant: another timer is set although one is pending
scheduleReconnect_Unguarded(timeout, timers) ==
  [timeout |-> TRUE, timers |-> timers + 1, delay |-> wsReconnectDelayMs]

\* scheduleReconnect: sets a timer of wsReconnectDelayMs unless one is pending
scheduleReconnect(timeout, timers) ==
  IF timeout THEN [timeout |-> timeout, timers |-> timers, delay |-> wsReconnectDelayMs]
  ELSE [timeout |-> TRUE, timers |-> timers + 1, delay |-> wsReconnectDelayMs]

\* connect(): a new WebSocket, made by the App or by the reconnect timer
connect(by) ==
  /\ Len(sockets) < MaxSockets
  /\ sockets' = Append(sockets, [readyState |-> "connecting", by |-> by])
  /\ serviceWs' = Len(sockets) + 1

\* the App creates the service and connects
ServiceConnect ==
  /\ sockets = <<>>
  /\ connect("app")
  /\ serviceLast' = [op |-> "connect"]
  /\ UNCHANGED <<shouldReconnect, reconnectTimeout, reconnectTimers, lastJoinMessage,
                 appReconnect, answers, currentPage, joining,
                 serverVars, clientVars, fetchVars, evictVars, overlapVars>>

\* the reconnect timer fires
ReconnectTimerFires ==
  /\ reconnectTimers > 0
  /\ reconnectTimers' = reconnectTimers - 1
  /\ reconnectTimeout' = FALSE
  /\ connect("timer")
  /\ serviceLast' = [op |-> "reconnect"]
  /\ UNCHANGED <<shouldReconnect, lastJoinMessage, appReconnect, answers,
                 currentPage, joining, serverVars, clientVars, fetchVars, evictVars, overlapVars>>

\* ws.onopen of WebSocket i
SocketOpened(i) ==
  /\ i \in DOMAIN sockets
  /\ sockets[i].readyState = "connecting"
  /\ sockets' = [sockets EXCEPT ![i].readyState = "open"]
  /\ shouldReconnect' = TRUE
  /\ LET replays == lastJoinMessage # NoJoin /\ CanSend(serviceWs, sockets')
     IN /\ answers' = IF replays THEN [answers EXCEPT ![lastJoinMessage] = "pending"]
                      ELSE answers
        /\ serviceLast' = [op |-> "open", socket |-> i, by |-> sockets[i].by,
                           lastJoinMessage |-> lastJoinMessage,
                           replayed |-> IF replays THEN lastJoinMessage ELSE NoJoin,
                           answer |-> IF lastJoinMessage = NoJoin THEN "none"
                                      ELSE answers[lastJoinMessage]]
  /\ UNCHANGED <<serviceWs, reconnectTimeout, reconnectTimers, lastJoinMessage,
                 appReconnect, currentPage, joining,
                 serverVars, clientVars, fetchVars, evictVars, overlapVars>>

\* ws.onclose of WebSocket i: the connection attempt failed, the connection
\* broke, or the close that disconnect() asked for is done
SocketClosed(i) ==
  /\ i \in DOMAIN sockets
  /\ sockets[i].readyState # "closed"
  /\ sockets' = [sockets EXCEPT ![i].readyState = "closed"]
  /\ serviceWs' = NoSocket
  /\ LET timer == IF shouldReconnect
                  THEN scheduleReconnect(reconnectTimeout, reconnectTimers)
                  ELSE [timeout |-> reconnectTimeout, timers |-> reconnectTimers,
                        delay |-> 0]
     IN /\ reconnectTimeout' = timer.timeout
        /\ reconnectTimers' = timer.timers
        /\ serviceLast' = [op |-> "close", socket |-> i, by |-> sockets[i].by,
                           readyState |-> sockets[i].readyState,
                           current |-> serviceWs = i,
                           shouldReconnect |-> shouldReconnect,
                           pending |-> reconnectTimers,
                           delay |-> timer.delay]
  /\ UNCHANGED <<shouldReconnect, lastJoinMessage, appReconnect, answers,
                 currentPage, joining, serverVars, clientVars, fetchVars, evictVars, overlapVars>>

\* the user joins a room from the lobby: handleJoinRoom calls
\* service.joinRoom, which stores the request and sends it
ServiceJoinRoom(m) ==
  /\ currentPage = "lobby"
  /\ joining = NoJoin
  /\ sockets # <<>>
  /\ joining' = m
  /\ lastJoinMessage' = m
  /\ answers' = IF CanSend(serviceWs, sockets) THEN [answers EXCEPT ![m] = "pending"]
                ELSE answers
  /\ serviceLast' = [op |-> "join", request |-> m,
                     sent |-> CanSend(serviceWs, sockets)]
  /\ UNCHANGED <<sockets, serviceWs, shouldReconnect, reconnectTimeout,
                 reconnectTimers, appReconnect, currentPage,
                 serverVars, clientVars, fetchVars, evictVars, overlapVars>>

\* the coordinator answers a join request with a room-state or an error
JoinAnswered(m, accepted) ==
  /\ answers[m] = "pending"
  /\ \E i \in DOMAIN sockets : sockets[i].readyState = "open"
  /\ answers' = [answers EXCEPT ![m] = IF accepted THEN "accepted" ELSE "rejected"]
  /\ IF joining = m
     THEN /\ joining' = NoJoin
          /\ currentPage' = IF accepted THEN "room" ELSE "lobby"
     ELSE UNCHANGED <<joining, currentPage>>
  /\ serviceLast' = [op |-> "answer", request |-> m, accepted |-> accepted]
  /\ UNCHANGED <<sockets, serviceWs, shouldReconnect, reconnectTimeout,
                 reconnectTimers, lastJoinMessage, appReconnect,
                 serverVars, clientVars, fetchVars, evictVars, overlapVars>>

\* handleJoinRoom has waited for an answer in vain
JoinTimedOut ==
  /\ joining # NoJoin
  /\ joining' = NoJoin
  /\ serviceLast' = [op |-> "join-timeout"]
  /\ UNCHANGED <<sockets, serviceWs, shouldReconnect, reconnectTimeout,
                 reconnectTimers, lastJoinMessage, appReconnect, answers,
                 currentPage, serverVars, clientVars, fetchVars, evictVars, overlapVars>>

\* the user leaves the room: handleLeaveRoom calls service.disconnect() and
\* sets a timer that connects again
ServiceDisconnect ==
  /\ currentPage = "room"
  /\ ~appReconnect
  /\ shouldReconnect' = FALSE
  /\ reconnectTimeout' = FALSE
  /\ reconnectTimers' = IF reconnectTimeout THEN reconnectTimers - 1 ELSE reconnectTimers
  /\ sockets' = IF serviceWs = NoSocket \/ sockets[serviceWs].readyState = "closed"
                THEN sockets
                ELSE [sockets EXCEPT ![serviceWs].readyState = "closing"]
  /\ serviceWs' = NoSocket
  /\ lastJoinMessage' = NoJoin
  /\ appReconnect' = TRUE
  /\ currentPage' = "lobby"
  /\ serviceLast' = [op |-> "disconnect"]
  /\ UNCHANGED <<answers, joining, serverVars, clientVars, fetchVars, evictVars, overlapVars>>

\* the timer of handleLeaveRoom fires
LeaveTimerFires ==
  /\ appReconnect
  /\ appReconnect' = FALSE
  /\ connect("app")
  /\ serviceLast' = [op |-> "connect"]
  /\ UNCHANGED <<shouldReconnect, reconnectTimeout, reconnectTimers, lastJoinMessage,
                 answers, currentPage, joining,
                 serverVars, clientVars, fetchVars, evictVars, overlapVars>>

\* the room-state messages a client may receive
RoomStates ==
  { [userId |-> 1, role |-> "leader", leaderId |-> 1],
    [userId |-> 1, role |-> "follower", leaderId |-> 2],
    [userId |-> 1, role |-> "follower", leaderId |-> NoUser] }

\* the client before it has joined a room
ClientStart ==
  /\ userRole = "none"
  /\ roomState = NoRoomState
  /\ isIndependentMode = FALSE
  /\ leaderPositionRef = NoPosition
  /\ video = NoVideo
  /\ deltaThresholdRef = defaultMaxAllowedDrift
  /\ reported = NoPosition
  /\ clientLast = [op |-> "init", msg |-> NoMsg, video |-> NoVideo,
                   role |-> "none", independent |-> FALSE]

Init ==
  /\ config \in ServerConfig
  /\ rooms = <<>>
  /\ allConnections = {}
  /\ connectionToUserId = [ws \in Conns |-> NoConn]
  /\ wsState = [ws \in Conns |-> "idle"]
  /\ sent = <<>>
  /\ last = Handled("init", 0, 0, NoUser, "none", "none", FALSE, NoUser, NoMsg)
  /\ ClientStart
  /\ FetchStart
  /\ EvictStart
  /\ ServiceStart

Next ==
  \/ \E ws \in Conns : OnConnection(ws)
  \/ \E ws \in Conns, roomId \in RoomIds, role \in UserRole,
        mediaTrackName \in TrackNames :
       handleJoinRoom(ws, roomId, role, UserNames[ws], mediaTrackName)
  \/ \E ws \in Conns, message \in SyncUpdateMessage : handleSyncUpdate(ws, message)
  \/ \E ws \in Conns, message \in PlaybackControlMessage :
       handlePlaybackControl(ws, message)
  \/ \E ws \in Conns : handleGetRooms(ws)
  \/ \E ws \in Conns : handleGetConfig(ws)
  \/ \E ws \in Conns, code \in {"PARSE_ERROR", "UNKNOWN_MESSAGE"} : OnBadMessage(ws, code)
  \/ \E ws \in Conns : OnError(ws)
  \/ \E ws \in Conns : OnClose(ws)

Spec == Init /\ [][Next]_vars

\* the coordinator before any connection, with a fixed configuration
CoordinatorIdle ==
  /\ config = [maxRoomCount |-> 1, maxUsersPerRoom |-> 3]
  /\ rooms = <<>>
  /\ allConnections = {}
  /\ connectionToUserId = [ws \in Conns |-> NoConn]
  /\ wsState = [ws \in Conns |-> "idle"]
  /\ sent = <<>>
  /\ last = Handled("init", 0, 0, NoUser, "none", "none", FALSE, NoUser, NoMsg)

\* the client on its own: the coordinator is idle
ClientInit ==
  /\ CoordinatorIdle
  /\ ClientStart
  /\ FetchStart
  /\ EvictStart
  /\ ServiceStart

ClientNext ==
  \/ \E message \in RelayedSyncUpdates : ClientSyncUpdate(message)
  \/ \E message \in RelayedControls : ClientPlaybackControl(message)
  \/ \E state \in RoomStates : ClientRoomState(state)
  \/ \E newLeaderId \in ClientIds \cup {NoUser} : ClientUserLeft(newLeaderId)
  \/ MountVideo
  \/ ClientLeaveRoom
  \/ ToggleIndependentMode
  \/ \E increment \in {-1, 1} : AdjustThreshold(increment)
  \/ \E action \in {"play", "pause", "seek"}, target \in LeaderTimes :
       VideoControl(action, target)
  \/ VideoTimeAdvance

ClientSpec == ClientInit /\ [][ClientNext]_vars

\* the client's fetch engine without failures: joins, the streaming loop,
\* the fetches that the corrector and the seeking listener start (one of the
\* two at a time), and the SourceBuffer.  A new join starts once the loop of
\* the session before has ended.
FetchInit == ClientInit

FetchNext ==
  \/ /\ bufferedRangesRef \subseteq 0..RejoinGroups /\ NoAuxFetch
     /\ streamLoop = NoLoop
     /\ handleJoinRoomStart
  \/ handleJoinRoomRejected
  \/ \E state \in {r \in RoomStates : r.leaderId # NoUser} :
       joinCall # NoCall /\ roomState = NoRoomState /\ ClientRoomState(state)
  \/ handleJoinRoomClick
  \/ ConfigReceived
  \/ sourceBufferRef # NoSourceBuffer /\ MountVideo
  \/ QueueBelow(FetchQueue) /\ InitFetched(FALSE)
  \/ LoopIteration
  \/ QueueBelow(FetchQueue) /\ LoopFetchDone(FALSE)
  \/ \E targetTime \in FetchTimes :
       seekFetch = NoFetch /\ SyncRequired(targetTime, timeToGroup(targetTime))
  \/ QueueBelow(FetchQueue) /\ SyncFetchDone(FALSE)
  \/ \E seekTime \in FetchTimes : syncFetch = NoFetch /\ handleSeeking(seekTime)
  \/ QueueBelow(FetchQueue) /\ SeekFetchDone(FALSE)
  \/ \E sb \in 1..MaxSessions : UpdateEnd(sb, FALSE)
  \/ joinCall = NoCall /\ ClientLeaveRoom

FetchSpec == FetchInit /\ [][FetchNext]_vars

\* one session of the fetch engine in which a fetch may fail and an
\* appendBuffer call may throw
FaultNext ==
  \/ sourceBuffers = <<>> /\ handleJoinRoomStart
  \/ \E state \in {r \in RoomStates : r.leaderId # NoUser} :
       joinCall # NoCall /\ roomState = NoRoomState /\ ClientRoomState(state)
  \/ handleJoinRoomClick
  \/ sourceBufferRef # NoSourceBuffer /\ MountVideo
  \/ \E throws \in BOOLEAN : QueueBelow(MaxQueue) /\ InitFetched(throws)
  \/ InitFailed
  \/ LoopIteration
  \/ \E throws \in BOOLEAN : QueueBelow(MaxQueue) /\ LoopFetchDone(throws)
  \/ LoopFetchFailed
  \/ \E targetTime \in FetchTimes : SyncRequired(targetTime, timeToGroup(targetTime))
  \/ \E throws \in BOOLEAN : QueueBelow(MaxQueue) /\ SyncFetchDone(throws)
  \/ SyncFetchFailed
  \/ \E sb \in 1..MaxSessions, throws \in BOOLEAN : UpdateEnd(sb, throws)
  \/ joinCall = NoCall /\ ClientLeaveRoom

FaultSpec == FetchInit /\ [][FaultNext]_vars

\* the fetch engine without failures, without the fetches of the corrector
\* and of the seeking listener, in which a session may end and the next one
\* start while the loop of the session before awaits its fetch.  While a
\* session streams a fetch completes only if the append queue holds fewer
\* than FetchQueue payloads.
OverlapQueue == QueueBelow(FetchQueue) \/ ~streamingRef

OverlapNext ==
  \/ /\ oldLoop = NoLoop /\ streamLoop.pc \in {"none", "fetch"}
     /\ handleJoinRoomStart
  \/ \E state \in {r \in RoomStates : r.leaderId # NoUser} :
       joinCall # NoCall /\ roomState = NoRoomState /\ ClientRoomState(state)
  \/ handleJoinRoomClick
  \/ sourceBufferRef # NoSourceBuffer /\ MountVideo
  \/ OverlapQueue /\ InitFetched(FALSE)
  \/ LoopIteration
  \/ OverlapQueue /\ LoopFetchDone(FALSE)
  \/ OldLoopIteration
  \/ OverlapQueue /\ OldLoopFetchDone(FALSE)
  \/ \E sb \in 1..MaxSessions : UpdateEnd(sb, FALSE)
  \/ joinCall = NoCall /\ ClientLeaveRoom

OverlapSpec == FetchInit /\ [][OverlapNext]_vars

\* every timer of the loops fires, every fetch in flight completes and every
\* append ends
OverlapFairness ==
  /\ WF_vars(LoopIteration)
  /\ WF_vars(OldLoopIteration)
  /\ WF_vars(OverlapQueue /\ InitFetched(FALSE))
  /\ WF_vars(OverlapQueue /\ LoopFetchDone(FALSE))
  /\ WF_vars(OverlapQueue /\ OldLoopFetchDone(FALSE))
  /\ WF_vars(\E sb \in 1..MaxSessions : UpdateEnd(sb, FALSE))

OverlapLiveSpec == OverlapSpec /\ OverlapFairness

\* cleanupBuffer on every layout and playhead of the bounds
EvictInit ==
  /\ CoordinatorIdle
  /\ ClientStart
  /\ FetchStart
  /\ ServiceStart
  /\ evBuffered \in Layouts
  /\ evTime \in EvictTimes
  /\ evRemoved = NoRemoval

EvictNext ==
  \/ Evict
  \/ \E currentTimeSeconds \in EvictTimes : PlayheadAt(currentTimeSeconds)

EvictSpec == EvictInit /\ [][EvictNext]_vars

\* the client's connection to the coordinator
ServiceNext ==
  \/ ServiceConnect
  \/ ReconnectTimerFires
  \/ \E i \in 1..MaxSockets : SocketOpened(i)
  \/ \E i \in 1..MaxSockets : SocketClosed(i)
  \/ \E m \in JoinRequests : ServiceJoinRoom(m)
  \/ \E m \in JoinRequests, accepted \in BOOLEAN : JoinAnswered(m, accepted)
  \/ JoinTimedOut
  \/ ServiceDisconnect
  \/ LeaveTimerFires

ServiceSpec == ClientInit /\ [][ServiceNext]_vars


\* ==== properties ==========================================================
\* the room the last handler was about, before and after it ran
BeforeRoom == GetRoom(last.before, last.roomId)

AfterRoom == GetRoom(rooms, last.roomId)

IsJoin == last.op = "join"

IsJoinError ==
  IsJoin /\ last.code \in {"MAX_ROOMS_REACHED", "ROOM_FULL", "LEADER_EXISTS", "NO_LEADER"}

\* handleDisconnect ran leaveRoom for a member of a room
IsLeave ==
  /\ last.op \in {"close", "error"}
  /\ last.userId # NoUser
  /\ HasRoom(last.before, last.roomId)
  /\ HasUser(BeforeRoom, last.userId)

Leaders(room) == { i \in DOMAIN room.users : room.users[i].role = "leader" }

MemberIds(room) == { room.users[i].id : i \in DOMAIN room.users }

\* C1: in every reachable state every room has at most one member whose
\* role is leader.
C1_AtMostOneLeader ==
  \A i \in DOMAIN rooms : Cardinality(Leaders(rooms[i])) <= 1

\* a second leader was refused in a room that has a leader and a follower
C1_Witness ==
  /\ IsJoin /\ last.role = "leader" /\ last.code = "LEADER_EXISTS"
  /\ Cardinality(Leaders(AfterRoom)) = 1
  /\ Len(AfterRoom.users) >= 2

\* C2 as stated: a room with members and no leader rejects every follower
\* join with NO_LEADER, and accepts a leader join when it is not full.
C2_Original ==
  (IsJoin /\ HasRoom(last.before, last.roomId)
     /\ Len(BeforeRoom.users) >= 1 /\ BeforeRoom.leaderId = NoUser)
  => /\ last.role = "follower" => last.code = "NO_LEADER"
     /\ (last.role = "leader" /\ Len(BeforeRoom.users) < config.maxUsersPerRoom)
        => /\ last.code = "OK"
           /\ AfterRoom.leaderId = last.userId
           /\ GetUser(AfterRoom, last.userId).role = "leader"

\* C2 (amended): a room with members and no leader rejects every follower
\* join, with NO_LEADER when it is not full and with ROOM_FULL when it is
\* full; it accepts a leader join when it is not full, and the joiner
\* becomes its leader.
C2_LeaderlessRoomJoin ==
  (IsJoin /\ HasRoom(last.before, last.roomId)
     /\ Len(BeforeRoom.users) >= 1 /\ BeforeRoom.leaderId = NoUser)
  => /\ last.role = "follower"
        => /\ last.code = IF Len(BeforeRoom.users) >= config.maxUsersPerRoom
                          THEN "ROOM_FULL" ELSE "NO_LEADER"
           /\ rooms = last.before
     /\ (last.role = "leader" /\ Len(BeforeRoom.users) < config.maxUsersPerRoom)
        => /\ last.code = "OK"
           /\ AfterRoom.leaderId = last.userId
           /\ GetUser(AfterRoom, last.userId).role = "leader"

\* a follower was refused with NO_LEADER by a room that is not full
C2_Witness ==
  /\ IsJoin /\ last.role = "follower" /\ last.code = "NO_LEADER"
  /\ Len(BeforeRoom.users) >= 1 /\ BeforeRoom.leaderId = NoUser
  /\ Len(BeforeRoom.users) < config.maxUsersPerRoom

\* the leader left and a follower remains
LeaderLeftFollowers ==
  /\ IsLeave
  /\ BeforeRoom.leaderId = last.userId
  /\ Len(Followers(DeleteUser(BeforeRoom.users, last.userId))) >= 1

\* C3: when the leader leaves and a follower remains, exactly one remaining
\* follower is promoted: its role becomes leader, leaderId becomes its id,
\* and every other remaining member is unchanged and a follower.
C3_ExactlyOnePromoted ==
  LeaderLeftFollowers
  => LET rest == DeleteUser(BeforeRoom.users, last.userId) IN
     /\ HasRoom(rooms, last.roomId)
     /\ Len(AfterRoom.users) = Len(rest)
     /\ \E p \in DOMAIN rest :
          /\ rest[p].role = "follower"
          /\ AfterRoom.users[p] = [rest[p] EXCEPT !.role = "leader"]
          /\ AfterRoom.leaderId = rest[p].id
          /\ last.newLeaderId = rest[p].id
          /\ \A q \in DOMAIN rest \ {p} :
               AfterRoom.users[q] = rest[q] /\ AfterRoom.users[q].role = "follower"

\* the leader left two followers behind
C3_Witness ==
  /\ LeaderLeftFollowers
  /\ Len(Followers(DeleteUser(BeforeRoom.users, last.userId))) >= 2

C5_RoomFull ==
  /\ \A i \in DOMAIN rooms : Len(rooms[i].users) <= config.maxUsersPerRoom
  /\ (IsJoin /\ HasRoom(last.before, last.roomId)
        /\ Len(BeforeRoom.users) >= config.maxUsersPerRoom)
     => last.code = "ROOM_FULL" /\ rooms = last.before

\* a leader join was refused by a full room of more than one member
C5_Witness ==
  /\ IsJoin /\ last.role = "leader" /\ last.code = "ROOM_FULL"
  /\ Len(AfterRoom.users) = config.maxUsersPerRoom
  /\ Len(AfterRoom.users) >= 2

\* C6: a join that names an unknown room id while maxRoomCount rooms exist
\* is rejected with MAX_ROOMS_REACHED, a join to an existing room never is,
\* and the coordinator never holds more than maxRoomCount rooms.
C6_MaxRooms ==
  /\ Len(rooms) <= config.maxRoomCount
  /\ IsJoin
     => (last.code = "MAX_ROOMS_REACHED"
         <=> (~HasRoom(last.before, last.roomId)
              /\ Len(last.before) >= config.maxRoomCount))

\* a join to a new room was refused while maxRoomCount rooms exist
C6_Witness ==
  /\ IsJoin /\ last.code = "MAX_ROOMS_REACHED"
  /\ Len(rooms) = config.maxRoomCount

ListedIds(list) == { list[i].id : i \in DOMAIN list }

\* C8: a leave that removes the last member of a room destroys the room; a
\* rooms listing names exactly the rooms that exist, each with a member; a
\* join that creates a room starts from a room with no other member, no
\* playback state and no leader but the joiner.
C8_EmptyRoomDestroyed ==
  /\ (IsLeave /\ MemberIds(BeforeRoom) = {last.userId})
     => /\ ~HasRoom(rooms, last.roomId)
        /\ Len(rooms) = Len(last.before) - 1
        /\ last.roomId \notin ListedIds(getRoomsList(rooms))
  /\ ListedIds(getRoomsList(rooms)) = { rooms[i].id : i \in DOMAIN rooms }
  /\ \A i \in DOMAIN rooms : Len(rooms[i].users) >= 1
  /\ \A i \in DOMAIN sent :
       sent[i].msg.type = "rooms-list"
       => ListedIds(sent[i].msg.rooms) = { rooms[j].id : j \in DOMAIN rooms }
  /\ (IsJoin /\ last.code = "OK" /\ ~HasRoom(last.before, last.roomId))
     => /\ MemberIds(AfterRoom) = {last.userId}
        /\ AfterRoom.currentPlaybackState = NullState
        /\ AfterRoom.leaderId = IF last.role = "leader" THEN last.userId ELSE NoUser

\* the last member left a room that had a playback state
C8_Witness ==
  /\ IsLeave /\ MemberIds(BeforeRoom) = {last.userId}
  /\ BeforeRoom.currentPlaybackState # NullState
  /\ ~HasRoom(rooms, last.roomId)

IsRelayOp == last.op \in {"sync-update", "playback-control"}

\* C9: a sync-update or playback-control from a connection whose member is
\* not the leader of its room changes no room, is relayed to nobody and is
\* answered with nothing.
C9_NonLeaderDropped ==
  (IsRelayOp
     /\ (last.userId = NoUser
         \/ ~HasRoom(last.before, last.roomId)
         \/ BeforeRoom.leaderId # last.userId))
  => rooms = last.before /\ sent = <<>>

\* a follower of a room that has a leader sent a playback-control
C9_Witness ==
  /\ last.op = "playback-control"
  /\ last.userId # NoUser
  /\ HasRoom(last.before, last.roomId)
  /\ BeforeRoom.leaderId \notin {NoUser, last.userId}
  /\ HasUser(BeforeRoom, last.userId)
  /\ last.code = "dropped"

\* the leader of its room sent a sync-update
LeaderSentSync ==
  /\ last.op = "sync-update"
  /\ last.userId # NoUser
  /\ HasRoom(last.before, last.roomId)
  /\ BeforeRoom.leaderId = last.userId

\* C10: a sync-update from the leader is stored as the playback state of
\* its room with the same timestamp, groupId, objectId and isPlaying, and is
\* sent unchanged once to every other member of that room, in no other
\* room and not to the leader.
C10_LeaderSyncRelayed ==
  LeaderSentSync
  => LET others == DeleteUser(AfterRoom.users, last.userId) IN
     /\ last.code = "relayed"
     /\ AfterRoom.currentPlaybackState.timestamp = last.msg.timestamp
     /\ AfterRoom.currentPlaybackState.groupId = last.msg.groupId
     /\ AfterRoom.currentPlaybackState.objectId = last.msg.objectId
     /\ AfterRoom.currentPlaybackState.isPlaying = last.msg.isPlaying
     /\ AfterRoom.currentPlaybackState.lastUpdateTime \in ClockSamples
     /\ rooms = SetRoom(last.before,
                        [BeforeRoom EXCEPT
                           !.currentPlaybackState = AfterRoom.currentPlaybackState])
     /\ Len(sent) = Len(others)
     /\ \A i \in DOMAIN others :
          sent[i] = [to |-> others[i].ws, user |-> others[i].id, msg |-> last.msg]

\* the leader's sync-update went to a follower while another room has a
\* member
C10_Witness ==
  /\ LeaderSentSync
  /\ Len(sent) >= 1
  /\ Len(rooms) >= 2
  /\ last.msg.isPlaying
  /\ BeforeRoom.currentPlaybackState # NullState

\* the leader of its room sent a playback-control
LeaderSentControl ==
  /\ last.op = "playback-control"
  /\ last.userId # NoUser
  /\ HasRoom(last.before, last.roomId)
  /\ BeforeRoom.leaderId = last.userId

\* C11 as stated: when the coordinator handles a playback-control from the
\* leader, the stored isPlaying becomes true for play, false for pause, and
\* keeps its previous value for seek.
C11_Original ==
  LeaderSentControl
  => /\ last.msg.action = "play" => AfterRoom.currentPlaybackState.isPlaying
     /\ last.msg.action = "pause" => ~AfterRoom.currentPlaybackState.isPlaying
     /\ (last.msg.action = "seek" /\ BeforeRoom.currentPlaybackState # NullState)
        => AfterRoom.currentPlaybackState.isPlaying
           = BeforeRoom.currentPlaybackState.isPlaying

\* what the coordinator stores: isPlaying is true for play and false for
\* pause and for seek, whatever was stored before
C11_StoredIsPlaying ==
  LeaderSentControl
  => AfterRoom.currentPlaybackState.isPlaying = (last.msg.action = "play")

\* C12: the playback state of a room changes only in a step that relays a
\* sync-update or playback-control of the member that is the room's leaderId
\* before the step; every other step (a join, a leave, a promotion, a
\* message of any other sender) leaves it as it was, and a room starts with
\* no playback state.
C12_PlaybackStateFrame ==
  \A i \in DOMAIN rooms :
    IF HasRoom(last.before, rooms[i].id)
    THEN rooms[i].currentPlaybackState
           # GetRoom(last.before, rooms[i].id).currentPlaybackState
         => /\ IsRelayOp
            /\ last.code = "relayed"
            /\ last.roomId = rooms[i].id
            /\ last.userId # NoUser
            /\ GetRoom(last.before, rooms[i].id).leaderId = last.userId
    ELSE rooms[i].currentPlaybackState = NullState

\* the leader left a room that has a playback state, a follower was promoted
\* and the playback state is the one the old leader stored
C12_Witness ==
  /\ IsLeave
  /\ last.newLeaderId # NoUser
  /\ BeforeRoom.currentPlaybackState # NullState
  /\ AfterRoom.currentPlaybackState = BeforeRoom.currentPlaybackState

\* the positions in sent of the messages of one type made for one member
SentTo(userId, type) ==
  { i \in DOMAIN sent : sent[i].user = userId /\ sent[i].msg.type = type }

\* C13: on a successful join the joiner is sent exactly one room-state
\* message, whose role, leaderId, member list, totalUsers and
\* currentPlaybackState are those of the room after the join (the playback
\* state being the one the room had before the join, null for a new room),
\* and every other member of the room is sent exactly one user-joined
\* message that carries the new member count; the joiner gets no
\* user-joined message.
C13_JoinNotifications ==
  (IsJoin /\ last.code = "OK")
  => /\ HasRoom(rooms, last.roomId)
     /\ HasUser(AfterRoom, last.userId)
     /\ Cardinality({ i \in DOMAIN sent : sent[i].msg.type = "room-state" }) = 1
     /\ \E i \in SentTo(last.userId, "room-state") :
          /\ sent[i].to = last.ws
          /\ sent[i].msg.roomId = last.roomId
          /\ sent[i].msg.userId = last.userId
          /\ sent[i].msg.role = last.role
          /\ sent[i].msg.leaderId = AfterRoom.leaderId
          /\ sent[i].msg.users
               = [j \in DOMAIN AfterRoom.users |->
                    [id |-> AfterRoom.users[j].id,
                     name |-> AfterRoom.users[j].name,
                     role |-> AfterRoom.users[j].role]]
          /\ sent[i].msg.totalUsers = Len(AfterRoom.users)
          /\ sent[i].msg.currentPlaybackState = AfterRoom.currentPlaybackState
          /\ sent[i].msg.currentPlaybackState
               = IF HasRoom(last.before, last.roomId)
                 THEN BeforeRoom.currentPlaybackState
                 ELSE NullState
     /\ SentTo(last.userId, "user-joined") = {}
     /\ \A j \in DOMAIN AfterRoom.users :
          AfterRoom.users[j].id # last.userId
          => /\ Cardinality(SentTo(AfterRoom.users[j].id, "user-joined")) = 1
             /\ \A i \in SentTo(AfterRoom.users[j].id, "user-joined") :
                  /\ sent[i].to = AfterRoom.users[j].ws
                  /\ sent[i].msg.userId = last.userId
                  /\ sent[i].msg.totalUsers = Len(AfterRoom.users)

\* a follower joined a room that has a leader and a playback state
C13_Witness ==
  /\ IsJoin /\ last.code = "OK" /\ last.role = "follower"
  /\ Len(AfterRoom.users) >= 2
  /\ AfterRoom.currentPlaybackState # NullState

IsDisconnect == last.op \in {"close", "error"}

\* C14: a close or error event of a connection that is bound to a member
\* runs leaveRoom for that member: the member is in no room afterwards, its
\* room is deleted when it was the last member, and otherwise every
\* remaining member is sent one user-left message with the new member count
\* and the new leader, a leader that leaves is replaced, and after a
\* promotion every remaining member is sent one room-state message; the
\* connection is unbound and unregistered, so that a further close or error
\* event of it changes no room and sends nothing.
C14_DisconnectLeaves ==
  /\ (IsDisconnect /\ last.userId # NoUser)
     => /\ IsLeave
        /\ \A i \in DOMAIN rooms : ~HasUser(rooms[i], last.userId)
        /\ IF MemberIds(BeforeRoom) = {last.userId}
           THEN ~HasRoom(rooms, last.roomId)
           ELSE /\ HasRoom(rooms, last.roomId)
                /\ MemberIds(AfterRoom) = MemberIds(BeforeRoom) \ {last.userId}
                /\ AfterRoom.leaderId
                     = IF BeforeRoom.leaderId = last.userId
                       THEN last.newLeaderId ELSE BeforeRoom.leaderId
                /\ (BeforeRoom.leaderId = last.userId) => last.newLeaderId # NoUser
                /\ \A j \in DOMAIN AfterRoom.users :
                     LET u == AfterRoom.users[j] IN
                     /\ Cardinality(SentTo(u.id, "user-left")) = 1
                     /\ \A i \in SentTo(u.id, "user-left") :
                          /\ sent[i].to = u.ws
                          /\ sent[i].msg.userId = last.userId
                          /\ sent[i].msg.totalUsers = Len(AfterRoom.users)
                          /\ sent[i].msg.newLeaderId = last.newLeaderId
                     /\ Cardinality(SentTo(u.id, "room-state"))
                          = IF last.newLeaderId # NoUser THEN 1 ELSE 0
  /\ IsDisconnect
     => /\ connectionToUserId[last.ws] = NoConn
        /\ last.ws \notin allConnections
  /\ (IsDisconnect /\ last.userId = NoUser)
     => rooms = last.before /\ sent = <<>>
  /\ \A ws \in Conns :
       wsState[ws] # "open"
       => connectionToUserId[ws] = NoConn /\ ws \notin allConnections

\* an error event removed the leader of a room and a follower was promoted
C14_Witness ==
  /\ IsLeave /\ last.op = "error"
  /\ last.wasLeader
  /\ last.newLeaderId # NoUser
  /\ wsState[last.ws] = "errored"

\* C15: a message that cannot be parsed is answered with one PARSE_ERROR
\* error and a message of an unknown type with one UNKNOWN_MESSAGE error,
\* sent to the sender only; the step changes no room, no binding of a
\* connection to its member, and no connection: the sender stays open and
\* registered.
C15_BadMessageRejected ==
  [][ last'.op = "bad-message"
      => /\ last'.code \in {"PARSE_ERROR", "UNKNOWN_MESSAGE"}
         /\ sent' = <<[to |-> last'.ws, user |-> NoUser,
                       msg |-> [type |-> "error", code |-> last'.code]]>>
         /\ rooms' = rooms
         /\ connectionToUserId' = connectionToUserId
         /\ wsState' = wsState
         /\ allConnections' = allConnections
         /\ wsState'[last'.ws] = "open"
         /\ last'.ws \in allConnections' ]_vars

\* the leader of a room with a follower sent a message of an unknown type
C15_Witness ==
  /\ last.op = "bad-message" /\ last.code = "UNKNOWN_MESSAGE"
  /\ connectionToUserId[last.ws] # NoConn
  /\ HasRoom(rooms, connectionToUserId[last.ws].roomId)
  /\ GetRoom(rooms, connectionToUserId[last.ws].roomId).leaderId
       = connectionToUserId[last.ws].userId
  /\ Len(GetRoom(rooms, connectionToUserId[last.ws].roomId).users) >= 2

\* ---- the client's corrector ----------------------------------------------
IsClientRelay == clientLast.op \in {"sync-update", "playback-control"}

\* a follower that is not in independent mode and has a video handled a
\* message of this type
FollowerHandled(type) ==
  /\ clientLast.op = type
  /\ clientLast.role = "follower"
  /\ ~clientLast.independent
  /\ clientLast.video # NoVideo

\* the drift the follower measured in the last step
LastDelta == Abs(clientLast.video.currentTime - clientLast.msg.timestamp)

\* C16: when a follower that is not in independent mode handles a
\* sync-update, its position becomes the leader's timestamp if the drift
\* |localTime - leaderTime| is strictly greater than the threshold, and is
\* left unchanged otherwise.
C16_SeekIffDriftExceeds ==
  FollowerHandled("sync-update")
  => video.currentTime = IF LastDelta > deltaThresholdRef
                         THEN clientLast.msg.timestamp
                         ELSE clientLast.video.currentTime

\* the drift was equal to the threshold and the position was kept
C16_Witness ==
  /\ FollowerHandled("sync-update")
  /\ LastDelta = deltaThresholdRef
  /\ video.currentTime = clientLast.video.currentTime
  /\ video.currentTime # clientLast.msg.timestamp

\* C17: after a follower that is not in independent mode handles a
\* sync-update, its video plays if and only if the leader reported
\* isPlaying, whatever the drift.
C17_PlayStateFollowsLeader ==
  FollowerHandled("sync-update")
  => video.paused = ~clientLast.msg.isPlaying

\* a playing follower within the threshold was paused by a sync-update
C17_Witness ==
  /\ FollowerHandled("sync-update")
  /\ LastDelta <= deltaThresholdRef
  /\ ~clientLast.video.paused
  /\ ~clientLast.msg.isPlaying
  /\ video.paused

\* C18: when a follower that is not in independent mode handles a
\* playback-control with action seek that carries a seek target, its
\* position becomes the target whatever the drift and the threshold, and its
\* play state is kept; a seek without a target changes nothing.
C18_SeekAlwaysApplied ==
  (FollowerHandled("playback-control") /\ clientLast.msg.action = "seek")
  => IF "seekTarget" \in DOMAIN clientLast.msg
     THEN /\ video.currentTime = clientLast.msg.seekTarget
          /\ video.paused = clientLast.video.paused
     ELSE video = clientLast.video

\* a seek moved a follower whose drift was within the threshold
C18_Witness ==
  /\ FollowerHandled("playback-control")
  /\ clientLast.msg.action = "seek"
  /\ "seekTarget" \in DOMAIN clientLast.msg
  /\ Abs(clientLast.video.currentTime - clientLast.msg.seekTarget) <= deltaThresholdRef
  /\ clientLast.video.currentTime # clientLast.msg.seekTarget
  /\ video.currentTime = clientLast.msg.seekTarget

\* C19 as stated: in independent mode no sync-update or playback-control
\* changes the follower's position or play state, and when independent mode
\* is switched off the position is set to the last leader position the
\* follower was told.
C19_Original ==
  /\ (IsClientRelay /\ clientLast.role = "follower" /\ clientLast.independent)
     => video = clientLast.video
  /\ (clientLast.op = "toggle" /\ clientLast.independent
        /\ video # NoVideo /\ reported # NoPosition)
     => video.currentTime = reported.time

\* what the client does: in independent mode the messages change nothing,
\* not even leaderPositionRef, and switching independent mode off sets the
\* position to leaderPositionRef, the leader position of the last message
\* that was handled outside independent mode with a video mounted
C19_IndependentMode ==
  /\ (IsClientRelay /\ clientLast.role = "follower" /\ clientLast.independent)
     => video = clientLast.video
  /\ (clientLast.op = "toggle" /\ clientLast.independent /\ video # NoVideo)
     => video = IF leaderPositionRef # NoPosition
                THEN [clientLast.video EXCEPT !.currentTime = leaderPositionRef.time]
                ELSE clientLast.video

\* C20: a client whose role is leader, a promoted follower included, keeps
\* its position and play state when a sync-update or playback-control
\* arrives.
C20_LeaderIgnoresMessages ==
  (IsClientRelay /\ clientLast.role = "leader")
  => video = clientLast.video

\* a follower that was promoted without leaving the room received a
\* sync-update that would have moved and paused or started it
C20_Witness ==
  /\ clientLast.op = "sync-update"
  /\ clientLast.role = "leader"
  /\ reported # NoPosition
  /\ video # NoVideo
  /\ LastDelta > deltaThresholdRef
  /\ video.paused = clientLast.msg.isPlaying

\* C27 as stated: when a follower that is not in independent mode handles a
\* playback-control with action play or pause, it measures the drift
\* |localTime - timestamp| and, if the drift is greater than the threshold,
\* its position becomes the leader's timestamp, as for a sync-update.
C27_Original ==
  (FollowerHandled("playback-control") /\ clientLast.msg.action \in {"play", "pause"})
  => video.currentTime = IF LastDelta > deltaThresholdRef
                         THEN clientLast.msg.timestamp
                         ELSE clientLast.video.currentTime

\* what the client does: a play or pause control only starts or pauses the
\* video; the position is kept whatever the drift
C27_PlayPauseKeepsPosition ==
  (FollowerHandled("playback-control") /\ clientLast.msg.action \in {"play", "pause"})
  => /\ video.currentTime = clientLast.video.currentTime
     /\ video.paused = (clientLast.msg.action = "pause")

\* ---- the client's fetch engine --------------------------------------------
\* the last step was an iteration of the streaming loop
IsLoopIteration == fetchLast.op = "loop"

\* the cursor an iteration works with: nextGroup, after the initial jump if
\* the iteration took it
IterationCursor ==
  IF fetchLast.jumped THEN Max(1, fetchLast.position.group - 2)
  ELSE fetchLast.nextGroup

\* C21: a loop iteration with maxGroupToFetch = effectiveGroup +
\* fetchAheadSeconds * groupsPerSecond and nextGroup <= maxGroupToFetch
\* fetches the group nextGroup if it is not in the buffered set (and on
\* completion the group is in the buffered set and nextGroup is one more
\* than the group fetched), and otherwise fetches nothing and adds one to
\* nextGroup; with nextGroup > maxGroupToFetch it fetches nothing and keeps
\* nextGroup.  No fetch of the loop is for a group beyond maxGroupToFetch.
C21_LoopIteration ==
  /\ IsLoopIteration =>
       /\ fetchLast.maxGroup
            = fetchLast.position.group + fetchAheadSeconds * groupsPerSecond
       /\ IF IterationCursor > fetchLast.maxGroup
          THEN streamLoop.pc = "head" /\ nextGroupRef = IterationCursor
          ELSE IF IterationCursor \in fetchLast.groups
          THEN streamLoop.pc = "head" /\ nextGroupRef = IterationCursor + 1
          ELSE /\ streamLoop.pc = "fetch"
               /\ streamLoop.targetGroup = IterationCursor
               /\ streamLoop.maxGroup = fetchLast.maxGroup
  /\ fetchLast.op = "loop-fetched" =>
       /\ fetchLast.group \in bufferedRangesRef
       /\ nextGroupRef = fetchLast.group + 1
  /\ streamLoop.pc = "fetch" => streamLoop.targetGroup <= streamLoop.maxGroup

\* an iteration found its group in the buffered set and moved on without a
\* fetch, and the cursor then stood beyond maxGroupToFetch
C21_Witness ==
  /\ IsLoopIteration
  /\ IterationCursor = fetchLast.maxGroup
  /\ IterationCursor \in fetchLast.groups
  /\ streamLoop.pc = "head"
  /\ nextGroupRef = fetchLast.maxGroup + 1

\* C22 as stated: every group id in the buffered set has been appended to
\* the SourceBuffer in use and is still in it, at every point of the
\* client's lifetime.
C22_Original ==
  \A g \in bufferedRangesRef :
    /\ sourceBufferRef # NoSourceBuffer
    /\ g \in sourceBuffers[sourceBufferRef].appended

\* a weaker statement that the client does not meet either: while a session
\* streams, every group of the buffered set is in the SourceBuffer in use,
\* is being appended to it, or waits in the append queue
C22_AppendedOrQueued ==
  (streamingRef /\ sourceBufferRef # NoSourceBuffer) =>
    \A g \in bufferedRangesRef :
      \/ g \in sourceBuffers[sourceBufferRef].appended
      \/ sourceBuffers[sourceBufferRef].updating = g
      \/ \E i \in DOMAIN appendQueueRef : appendQueueRef[i] = g

\* C28 as stated: an iteration of the loop of a follower that knows a
\* leader position works with the leader's group and time, and an iteration
\* of the loop of a leader with the group and time of its own video.
C28_Original ==
  IsLoopIteration =>
    /\ (fetchLast.role = "follower" /\ fetchLast.leaderPosition # NoPosition)
         => fetchLast.position = fetchLast.leaderPosition
    /\ fetchLast.role = "leader"
         => fetchLast.position = [time |-> fetchLast.localTime,
                                  group |-> timeToGroup(fetchLast.localTime)]

\* what the client does: the role that decides is the one the loop's
\* closure holds, the userRole of the render in which handleJoinRoom was
\* memoised
C28_ClosureRole ==
  IsLoopIteration =>
    fetchLast.position =
      IF streamLoop.userRole = "follower" /\ fetchLast.leaderPosition # NoPosition
      THEN fetchLast.leaderPosition
      ELSE [time |-> fetchLast.localTime, group |-> timeToGroup(fetchLast.localTime)]

\* C29 as stated (for a leader position beyond group 1): the first loop
\* iteration of a follower that knows a leader position jumps, and no later
\* iteration of the session does.
C29_Original ==
  (/\ IsLoopIteration
   /\ fetchLast.role = "follower"
   /\ fetchLast.leaderPosition # NoPosition
   /\ fetchLast.leaderPosition.group > 1)
  => fetchLast.jumped = ~fetchLast.hadJumped

\* what holds: no session jumps twice
C29_AtMostOnce == (IsLoopIteration /\ fetchLast.jumped) => ~fetchLast.hadJumped

\* C30 as stated: while a session streams, no step lowers nextGroup.
C30_Original ==
  [][(streamingRef /\ streamingRef') => nextGroupRef' >= nextGroupRef]_vars

\* ---- failures of fetches and appends --------------------------------------
\* the last step was a fetch that failed or an appendBuffer call that threw
IsFailure ==
  \/ fetchLast.op \in {"init-failed", "loop-fetch-failed", "sync-fetch-failed"}
  \/ ("threw" \in DOMAIN fetchLast /\ fetchLast.threw)

\* C23 as stated: after a fetch failure or an append failure of a streaming
\* session the loop has ended (the streaming flag is cleared) and an error
\* is recorded.
C23_Original == IsFailure => (~streamingRef /\ requestState.error)

\* what the client does: a failure of the fetch of the init segment or of
\* the loop's own fetch ends the loop and records the error
C23_LoopFetchFailure ==
  fetchLast.op \in {"init-failed", "loop-fetch-failed"}
  => (~streamingRef /\ requestState.error /\ streamLoop = NoLoop)

\* ---- the append queue -----------------------------------------------------
\* the payload that the step enqueues, as a sequence of at most one payload
Enqueued ==
  IF fetchLast' = fetchLast \/ sourceBufferRef = NoSourceBuffer THEN <<>>
  ELSE IF fetchLast'.op = "init-fetched" THEN <<InitPayload>>
  ELSE IF fetchLast'.op \in {"loop-fetched", "sync-fetched", "seek-fetched"}
  THEN <<fetchLast'.group>>
  ELSE <<>>

\* a step of the append path: a payload leaves the queue only from its head,
\* while the SourceBuffer in use is idle or has just ended an append, and is
\* then the one payload that the SourceBuffer appends (or, if mayDrop, is
\* lost in an appendBuffer call that throws); a SourceBuffer gains a payload
\* only by ending the append of that payload
AppendStep(mayDrop) ==
  LET q == appendQueueRef \o Enqueued IN
  /\ appendQueueRef' # q =>
       /\ q # <<>>
       /\ appendQueueRef' = Tail(q)
       /\ sourceBufferRef # NoSourceBuffer
       /\ \/ sourceBuffers[sourceBufferRef].updating = NoPayload
          \/ fetchLast'.op = "updateend"
       /\ \/ /\ sourceBuffers'[sourceBufferRef].updating = Head(q)
             /\ appendingRef'
          \/ /\ mayDrop
             /\ fetchLast'.threw
             /\ sourceBuffers'[sourceBufferRef].updating = NoPayload
             /\ ~appendingRef'
  /\ \A sb \in DOMAIN sourceBuffers :
       /\ (/\ sourceBuffers'[sb].updating # sourceBuffers[sb].updating
           /\ sourceBuffers'[sb].updating \notin {NoPayload, Removing})
          => (appendQueueRef' # q /\ sb = sourceBufferRef)
       /\ ~(sourceBuffers'[sb].appended \subseteq sourceBuffers[sb].appended)
          => /\ sourceBuffers[sb].updating \notin {NoPayload, Removing}
             /\ sourceBuffers'[sb].appended
                  = sourceBuffers[sb].appended \cup {sourceBuffers[sb].updating}

\* C24 as stated: at most one append is in flight against the SourceBuffer,
\* and every payload that was enqueued is appended, in the order of the
\* queue and once, when the SourceBuffer is ready for it.
C24_Original == [][AppendStep(FALSE)]_vars

\* what the client does: the same, except that a payload whose appendBuffer
\* call throws is lost
C24_FifoOrDropped == [][AppendStep(TRUE)]_vars

\* ---- eviction -------------------------------------------------------------
\* C25: the range that a cleanupBuffer call removes has no part inside the
\* main window [currentTime - backBufferSeconds, currentTime +
\* fetchAheadSeconds], whatever the buffered ranges and the current time;
\* the range that the tight-budget fallback removes ends no later than
\* currentTime - backBufferSeconds.
C25_MainWindowKept ==
  evRemoved # NoRemoval =>
    LET mainStart == evTime - Seconds(backBufferSeconds)
        mainEnd == evTime + Seconds(fetchAheadSeconds)
    IN /\ evRemoved.start < evRemoved.end
       /\ IF evRemoved.rule = "fallback"
          THEN evRemoved.end <= mainStart
          ELSE evRemoved.end <= mainStart \/ evRemoved.start >= mainEnd

\* a call trimmed the first range, which held the playhead, up to the start
\* of the main window
C25_Witness ==
  /\ evRemoved # NoRemoval
  /\ evRemoved.rule = "old-tail"
  /\ evRemoved.end = evTime - Seconds(backBufferSeconds)
  /\ evBuffered # <<>>
  /\ evBuffered[1].start = evRemoved.end
  /\ evBuffered[1].end > evTime

\* the fallback of cleanupBuffer never removes anything
FallbackRemovesNothing == evRemoved # NoRemoval => evRemoved.rule # "fallback"

\* ---- reconnection ---------------------------------------------------------
\* the last step was the close of the established connection in use, or of
\* a connection that the reconnect timer was opening, and not one that
\* disconnect() asked for
IsUnexpectedClose ==
  /\ serviceLast.op = "close"
  /\ \/ serviceLast.readyState = "open" /\ serviceLast.current
     \/ serviceLast.readyState = "connecting" /\ serviceLast.by = "timer"
        /\ serviceLast.shouldReconnect

\* the last step was the opening of a connection that the reconnect timer made
IsReconnected == serviceLast.op = "open" /\ serviceLast.by = "timer"

\* after an unexpected close one reconnect timer of wsReconnectDelayMs is
\* pending, and never more than one
ReconnectScheduled ==
  /\ reconnectTimers <= 1
  /\ reconnectTimeout = (reconnectTimers = 1)
  /\ IsUnexpectedClose =>
       /\ reconnectTimers = 1
       /\ serviceLast.delay = wsReconnectDelayMs

\* C26 as stated: an unexpected close schedules one reconnect after the
\* fixed delay (a failed attempt schedules the next), at most one timer is
\* pending, and the join request that a successful reconnect sends again
\* is one that the coordinator accepted, never one that it rejected.
C26_Original ==
  /\ ReconnectScheduled
  /\ IsReconnected =>
       /\ serviceLast.replayed = serviceLast.lastJoinMessage
       /\ serviceLast.replayed # NoJoin => serviceLast.answer = "accepted"

\* what the service does: it sends again the last join request that
\* joinRoom was called with, whatever the coordinator answered to it
C26_ReplaysLastRequest ==
  /\ ReconnectScheduled
  /\ IsReconnected =>
       serviceLast.replayed \in {NoJoin, serviceLast.lastJoinMessage}

\* ---- members and connections ------------------------------------------------
\* the members of all rooms
AllMembers ==
  UNION { { rooms[i].users[j] : j \in DOMAIN rooms[i].users } : i \in DOMAIN rooms }

\* C35 as stated: every member of every room was created through a
\* connection that is still open and that is bound to this member, so that
\* no connection has two members and a closed connection has none.
C35_Original ==
  \A u \in AllMembers :
    /\ wsState[u.ws] = "open"
    /\ connectionToUserId[u.ws].userId = u.id

\* what the coordinator keeps: the member that a connection is bound to is
\* a member of the room of the binding, and is removed when it closes
C35_BoundMemberInRoom ==
  \A ws \in Conns :
    connectionToUserId[ws] # NoConn =>
      /\ wsState[ws] = "open"
      /\ HasRoom(rooms, connectionToUserId[ws].roomId)
      /\ HasUser(GetRoom(rooms, connectionToUserId[ws].roomId),
                 connectionToUserId[ws].userId)

\* C36: in every room, leaderId is set if and only if a member has the role
\* leader, and it is then the id of a member of the room whose role is
\* leader.
C36_LeaderIdIsLeader ==
  \A i \in DOMAIN rooms :
    /\ (rooms[i].leaderId # NoUser) = (Leaders(rooms[i]) # {})
    /\ rooms[i].leaderId # NoUser =>
         \E j \in Leaders(rooms[i]) : rooms[i].users[j].id = rooms[i].leaderId

\* a leader left a room with two followers: one was promoted and leaderId
\* names it
C36_Witness ==
  /\ IsLeave /\ last.wasLeader
  /\ HasRoom(rooms, last.roomId)
  /\ Len(AfterRoom.users) = 2
  /\ AfterRoom.leaderId = last.newLeaderId
  /\ last.newLeaderId # NoUser
  /\ \E j \in Leaders(AfterRoom) : AfterRoom.users[j].id = AfterRoom.leaderId

\* ---- a close event of a replaced socket --------------------------------------
\* C38 as stated: the close event of a WebSocket that the service has already
\* replaced by another one neither clears the service's reference to the new
\* WebSocket nor schedules a reconnect.
C38_Original ==
  [][\A i \in DOMAIN sockets :
       ( /\ sockets[i].readyState # "closed"
         /\ sockets'[i].readyState = "closed"
         /\ serviceWs # NoSocket
         /\ serviceWs # i )
       => /\ serviceWs' = serviceWs
          /\ reconnectTimers' = reconnectTimers]_vars

\* ---- the eviction decision ---------------------------------------------------
\* the main window around the playhead t
EvictionWindow(t) ==
  [start |-> Max(0, t - Seconds(backBufferSeconds)),
   end |-> t + Seconds(fetchAheadSeconds)]

\* the rules (a) to (e) for the ranges of a layout, each with the condition
\* under which it applies and the range that it removes
EvictionRules(ranges, t) ==
  LET earliest == ranges[1]
      latest == ranges[Len(ranges)]
      window == EvictionWindow(t)
  IN << [applies |-> earliest.end <= window.start,
         start |-> earliest.start, end |-> earliest.end],
        [applies |-> latest.start >= window.end,
         start |-> latest.start, end |-> latest.end],
        [applies |-> earliest.start < window.start /\ window.start < earliest.end,
         start |-> earliest.start, end |-> window.start],
        [applies |-> latest.start < window.end /\ window.end < latest.end,
         start |-> window.end, end |-> latest.end],
        [applies |-> TRUE,
         start |-> earliest.start,
         end |-> Min(earliest.end, t - Seconds(backBufferSeconds))] >>

\* the reference procedure: the range to remove from a layout, or NoRemoval
ReferenceEviction(ranges, t) ==
  IF ranges = <<>> \/ totalDuration(ranges) <= Seconds(maxBufferSeconds)
  THEN NoRemoval
  ELSE LET rules == EvictionRules(ranges, t)
           k == CHOOSE i \in DOMAIN rules :
                  rules[i].applies /\ \A j \in 1..(i - 1) : ~rules[j].applies
       IN IF rules[k].end > rules[k].start
          THEN [start |-> rules[k].start, end |-> rules[k].end]
          ELSE NoRemoval

\* C32: for every layout and playhead, a cleanupBuffer call removes nothing
\* when the total buffered duration is at most maxBufferSeconds, and
\* otherwise removes exactly the one range that the first applicable rule of
\* (a) to (e) gives (nothing if that range is empty).
C32_EvictionAsReference ==
  [][Evict =>
       LET reference == ReferenceEviction(evBuffered, evTime)
       IN IF reference = NoRemoval
          THEN evRemoved' = NoRemoval /\ evBuffered' = evBuffered
          ELSE /\ evRemoved' # NoRemoval
               /\ evRemoved'.start = reference.start
               /\ evRemoved'.end = reference.end
               /\ evBuffered' = removeRange(evBuffered, reference.start,
                                            reference.end)]_vars

\* a call removed the earliest range, which lay before the window, although the
\* latest range lay wholly after the window: rule (a) went before rule (b)
C32_Witness ==
  /\ evRemoved # NoRemoval
  /\ evRemoved.rule = "old"
  /\ evRemoved.end <= EvictionWindow(evTime).start
  /\ evBuffered # <<>>
  /\ evBuffered[Len(evBuffered)].start >= EvictionWindow(evTime).end
  /\ evBuffered[1].start >= evRemoved.end

\* ---- eviction and the buffered set -------------------------------------------
\* the groups of the layouts
EvictGroups == 0..timeToGroup(Seconds(GridSeconds) * GridPoints)

\* the time span of group g overlaps the range
SpanOverlaps(g, range) ==
  /\ Seconds(g) \div groupsPerSecond < range.end
  /\ range.start < Seconds(g + 1) \div groupsPerSecond

\* all of group g lies inside one of the ranges
SpanInside(g, ranges) ==
  \E i \in DOMAIN ranges :
    /\ ranges[i].start <= Seconds(g) \div groupsPerSecond
    /\ Seconds(g + 1) \div groupsPerSecond <= ranges[i].end

\* C40 as stated: an eviction deletes from the buffered set the groups whose
\* time span overlaps the removed range, and a group whose bytes all remain
\* in the SourceBuffer stays in the set.
C40_Original ==
  evRemoved # NoRemoval =>
    \A g \in EvictGroups :
      /\ SpanOverlaps(g, evRemoved) => g \in removedGroups(evRemoved)
      /\ SpanInside(g, evBuffered) => g \notin removedGroups(evRemoved)

\* what the code keeps: every group that lost bytes is deleted from the set
C40_OverlappingDeleted ==
  evRemoved # NoRemoval =>
    \A g \in EvictGroups :
      SpanOverlaps(g, evRemoved) => g \in removedGroups(evRemoved)

\* ---- the live threshold ------------------------------------------------------
\* C34: after any sequence of live adjustments the threshold is within
\* [syncMinAllowedDrift, syncMaxAllowedDrift], and a follower that then
\* handles a sync-update corrects its position exactly if the drift exceeds
\* the adjusted threshold.
C34_ThresholdInRangeAndApplied ==
  /\ syncMinAllowedDrift <= deltaThresholdRef
  /\ deltaThresholdRef <= syncMaxAllowedDrift
  /\ FollowerHandled("sync-update") =>
       (video.currentTime = clientLast.msg.timestamp)
         = (LastDelta > deltaThresholdRef \/ LastDelta = 0)

\* the threshold was lowered to the minimum, and the next sync-update
\* corrected a drift that the default threshold would have let pass
C34_Witness ==
  /\ FollowerHandled("sync-update")
  /\ deltaThresholdRef = syncMinAllowedDrift
  /\ deltaThresholdRef < defaultMaxAllowedDrift
  /\ LastDelta > deltaThresholdRef
  /\ LastDelta <= defaultMaxAllowedDrift
  /\ video.currentTime = clientLast.msg.timestamp

\* ---- seeks -------------------------------------------------------------------
\* the target group and its lookahead window are marked as buffered and the
\* cursor is behind the window
WindowBuffered(groups, cursor, targetGroup) ==
  /\ \A g \in targetGroup..(targetGroup + fetchAheadGroups - 1) : g \in groups
  /\ cursor >= targetGroup + fetchAheadGroups

\* C31 as stated: when handleSeeking or handleSyncRequired returns, whether at
\* once or after its last fetch, the target group and every group of its
\* lookahead window are in the buffered set and nextGroup is at least
\* targetGroup + fetchAheadSeconds * groupsPerSecond.
C31_Original ==
  [][/\ (fetchLast'.op = "seek" /\ (fetchLast'.ignored \/ seekFetch' = NoFetch))
          => WindowBuffered(bufferedRangesRef', nextGroupRef', fetchLast'.group)
     /\ (seekFetch # NoFetch /\ seekFetch' = NoFetch)
          => WindowBuffered(bufferedRangesRef', nextGroupRef', seekFetch.seekGroup)
     /\ (fetchLast'.op = "sync" /\ syncFetch' = NoFetch)
          => WindowBuffered(bufferedRangesRef', nextGroupRef', fetchLast'.group)
     /\ (syncFetch # NoFetch /\ syncFetch' = NoFetch)
          => WindowBuffered(bufferedRangesRef', nextGroupRef', syncFetch.targetGroup)
    ]_vars

\* what the code keeps while no fetch fails: a handler that did not return at
\* its isSeeking test leaves the window buffered and the cursor behind it
C31_UnlessIgnored ==
  [][/\ (fetchLast'.op = "seek" /\ ~fetchLast'.ignored /\ seekFetch' = NoFetch)
          => WindowBuffered(bufferedRangesRef', nextGroupRef', fetchLast'.group)
     /\ (seekFetch # NoFetch /\ seekFetch' = NoFetch)
          => WindowBuffered(bufferedRangesRef', nextGroupRef', seekFetch.seekGroup)
     /\ (fetchLast'.op = "sync" /\ syncFetch' = NoFetch)
          => WindowBuffered(bufferedRangesRef', nextGroupRef', fetchLast'.group)
     /\ (syncFetch # NoFetch /\ syncFetch' = NoFetch)
          => WindowBuffered(bufferedRangesRef', nextGroupRef', syncFetch.targetGroup)
    ]_vars

\* ---- fetching a group twice --------------------------------------------------
\* C39 as stated: a fetch that completes, of the loop, of handleSyncRequired
\* or of handleSeeking, appends a group that is not in the buffered set, so
\* that no group is appended a second time while it is still buffered.
C39_Original ==
  [][/\ (streamLoop.pc = "fetch" /\ fetchLast'.op = "loop-fetched")
          => streamLoop.targetGroup \notin bufferedRangesRef
     /\ (syncFetch # NoFetch /\ fetchLast'.op = "sync-fetched")
          => syncFetch.g \notin bufferedRangesRef
     /\ (seekFetch # NoFetch /\ fetchLast'.op = "seek-fetched")
          => seekFetch.g \notin bufferedRangesRef
    ]_vars

\* what the code keeps: a fetch starts only for a group that is not in the
\* buffered set
C39_NotBufferedAtStart ==
  [][/\ (streamLoop.pc = "head" /\ streamLoop'.pc = "fetch")
          => streamLoop'.targetGroup \notin bufferedRangesRef
     /\ (syncFetch' # NoFetch /\ syncFetch' # syncFetch)
          => syncFetch'.g \notin bufferedRangesRef'
     /\ (seekFetch' # NoFetch /\ seekFetch' # seekFetch)
          => seekFetch'.g \notin bufferedRangesRef'
    ]_vars

\* ---- loops and sessions ------------------------------------------------------
\* the loop is in its steady state: between two iterations or at its fetch
Steady(loop) == loop.pc \in {"head", "fetch"}

\* C37 as stated: at most one steady-state loop runs at any time, also when a
\* session ends and the next one starts before the loop of the session
\* before has come to the test of its flag.
C37_Original == ~(Steady(oldLoop) /\ Steady(streamLoop))

\* a loop runs whose session has been left
LeftLoopRuns == oldLoop # NoLoop \/ (streamLoop # NoLoop /\ ~streamingRef)

\* C33 as stated: once its session has been left, a loop starts no fetch
\* after the iteration it is in and comes to its end, given that the timers
\* fire and the fetches in flight complete.
C33_Original ==
  /\ [][(oldLoop.pc = "head" => oldLoop'.pc # "fetch")
        /\ (streamLoop.pc = "head" /\ ~streamingRef => streamLoop'.pc # "fetch")]_vars
  /\ (LeftLoopRuns ~> ~LeftLoopRuns)

\* what the code keeps: a loop whose flag is cleared starts no fetch and ends,
\* unless a new session sets the flag again first
C33_UnlessRejoined ==
  /\ [][streamLoop.pc = "head" /\ ~streamingRef => streamLoop'.pc # "fetch"]_vars
  /\ ((streamLoop # NoLoop /\ ~streamingRef) ~> (streamLoop = NoLoop \/ streamingRef))

====
